---- MODULE Spec2Model ----
(***************************************************************************)
(* TF2 Player Joined Notifier: the presence-reconciliation ("all") mode    *)
(* and the threshold-gated mode of the Lambda function, as state machines  *)
(* over the DynamoDB table of notified players, the S3 timer object and    *)
(* the SNS topic.  Every external call of an invocation is one step.       *)
(***************************************************************************)
EXTENDS Integers, Sequences, FiniteSets, TLC

\* ------------------------------------------------------------------ bounds

\* Longest player list a query returns.
MaxPlayers == 2
\* Last instant of the clock, in seconds.
MaxClock == 400
\* Largest configured PLAYER_COUNT_THRESHOLD.
MaxThreshold == 2
\* Largest configured THRESHOLD_TIMER_MINUTES.
MaxTimerMinutes == 3
\* Resolution of time.time(): clock ticks per second.
TicksPerSecond == 2

\* ------------------------------------------------------- program constants

MIN_THRESHOLD == 0
MIN_TIMER_MINUTES == 2
MINUTES_TO_SECONDS_MULTIPLIER == 60
SUCCESS == 200
FAILURE == 300

\* Player names a query may report: two ordinary names and a name made of a
\* single blank; "" is the name of a player who is still connecting.
PlayerNames == {"A", "B", " "}
ReportedNames == PlayerNames \cup {""}

\* The invocations (Lambda containers) that may exist, and the single one
\* that runs when the scheduler serializes invocations.
Procs == {1, 2}
SeqProcs == {1}

\* Time between the start of one invocation and the start of the next, in
\* clock ticks: none, or a minute give or take one tick.
Elapsed ==
    {0,
     MINUTES_TO_SECONDS_MULTIPLIER * TicksPerSecond - 1,
     MINUTES_TO_SECONDS_MULTIPLIER * TicksPerSecond,
     MINUTES_TO_SECONDS_MULTIPLIER * TicksPerSecond + 1}

VARIABLES
    db,         \* DynamoDB table: the primary keys (player names) it holds
    s3,         \* S3 timer.txt: [exists, body], body the text of the object
    clock,      \* time.time(), in clock ticks
    Config,     \* the Config class attributes read by the modes
    inv,        \* per invocation: program counter, locals, calls issued
    announced,  \* history: per name, notifications listing it while it stayed
    crossings   \* history: 'now' of the last two threshold notifications

vars == <<db, s3, clock, Config, inv, announced, crossings>>

\* ----------------------------------------------------------------- helpers

SeqToSet(s) == {s[i] : i \in 1..Len(s)}

\* Every order in which a scan may return the records of S.
Orders(S) ==
    {o \in [1..Cardinality(S) -> S] : \A i, j \in 1..Cardinality(S) : o[i] = o[j] => i = j}

\* Player lists of at most MaxPlayers entries.
PlayerLists == UNION {[1..n -> ReportedNames] : n \in 0..MaxPlayers}

\* int(x) of a non-negative float held in clock ticks: whole seconds.
IntOfTicks(t) == t \div TicksPerSecond

\* TimeType(): the instant in its three representations.
TimeType(t) ==
    [current_time_seconds_float |-> t,
     current_time_seconds_int |-> IntOfTicks(t),
     current_time_human_readable |-> <<"ctime", IntOfTicks(t)>>]

\* TimeType.set_time(time_seconds) on a fresh TimeType.
set_time(t) == TimeType(t)

NoTime == TimeType(0)

convert_minutes_to_seconds(minutes) == minutes * MINUTES_TO_SECONDS_MULTIPLIER

\* float(seconds) in clock ticks.
FloatOfSeconds(s) == s * TicksPerSecond

generate_return_messageMutAlwaysSuccess(status_code, status_body) ==
    [statusCode |-> 200, body |-> status_body]

generate_return_message(status_code, status_body) ==
    [statusCode |-> status_code, body |-> status_body]

NoReturn == [statusCode |-> 0, body |-> ""]

\* str(n) for n >= 0: the decimal digits, most significant first.
RECURSIVE str(_)
str(n) == IF n < 10 THEN <<n>> ELSE Append(str(n \div 10), n % 10)

\* int(text) of a non-empty digit string.
RECURSIVE int(_)
int(text) ==
    IF Len(text) = 1 THEN text[1]
    ELSE 10 * int(SubSeq(text, 1, Len(text) - 1)) + text[Len(text)]

\* current_player_names: the names of the player list that are not "".
NonEmptyNamesMutKeepAll(players) == players

NonEmptyNames(players) == SelectSeq(players, LAMBDA n : n # "")

\* The locals of an invocation that has not started.
Fresh ==
    [pc |-> "idle",
     mode |-> "",
     player_count |-> 0,
     current_players |-> <<>>,
     current_player_names |-> <<>>,
     items |-> <<>>,
     idx |-> 0,
     pending_player_names |-> <<>>,
     should_notify |-> FALSE,
     current_time |-> NoTime,
     target_time_sec |-> 0,
     new_target_time |-> NoTime,
     ret |-> NoReturn,
     calls |-> <<>>,
     failed |-> <<>>,
     db_at_start |-> {},
     db_after_disconnects |-> {},
     s3_at_start |-> [exists |-> FALSE, body |-> <<>>]]

\* A call the invocation issued to an external service.
Call(op, arg) == [op |-> op, arg |-> arg]

Issue(r, op, arg) == [r EXCEPT !.calls = Append(@, Call(op, arg))]

Return(r, status_code, status_body) ==
    [r EXCEPT !.pc = "done", !.ret = generate_return_message(status_code, status_body)]

RaiseMutSwallow(r, site) ==
    [r EXCEPT !.failed = Append(@, site),
              !.pc = IF site = "all_query" THEN "all_scan"
                     ELSE IF site = "thr_query" THEN "thr_upload"
                     ELSE "raised"]

CaughtMutContinue(r, site) ==
    [r EXCEPT !.failed = Append(@, site),
              !.pc = IF site = "thr_upload" THEN "thr_publish" ELSE "handle_error"]

\* An exception no handler of the invocation catches: the invocation ends
\* without a return value. site names the call that raised.
Raise(r, site) == [r EXCEPT !.pc = "raised", !.failed = Append(@, site)]

\* An exception an 'except Exception' clause turns into 'return handle_error'.
Caught(r, site) == [r EXCEPT !.pc = "handle_error", !.failed = Append(@, site)]

\* -------------------------------------------------------------- Init

\* Config after get_env_variables and verify_env_variables: "all" mode reads
\* neither the threshold nor the timer minutes (0 stands for None).
Configs ==
    {[MODE |-> "all", PLAYER_COUNT_THRESHOLD |-> 0, THRESHOLD_TIMER_MINUTES |-> 0]}
    \cup
    {[MODE |-> "threshold", PLAYER_COUNT_THRESHOLD |-> t, THRESHOLD_TIMER_MINUTES |-> m] :
        t \in MIN_THRESHOLD..MaxThreshold, m \in MIN_TIMER_MINUTES..MaxTimerMinutes}

NoCrossings == [last |-> -1, prev |-> -1]

Init ==
    /\ db = {}
    /\ s3 = [exists |-> FALSE, body |-> <<>>]
    /\ clock = 0
    /\ Config \in Configs
    /\ inv = [p \in Procs |-> Fresh]
    /\ announced = [n \in PlayerNames |-> 0]
    /\ crossings = NoCrossings

\* ------------------------------------------------- presence ("all") mode

\* format_server_info_to_string in "all" mode: the fields the text embeds.
FormatAll(player_count, player_names) ==
    [template |-> "all", player_count |-> player_count, player_names |-> player_names]

\* 'name not in current_player_names'
DisconnectedMutNever(name, names) == FALSE

Disconnected(name, names) == name \notin SeqToSet(names)

NextDisconnectedMutNone(items, names, i) == Len(items) + 1

\* The next scanned record, from position i on, whose player disconnected;
\* Len(items) + 1 when there is none.
NextDisconnected(items, names, i) ==
    LET c == {j \in i..Len(items) : Disconnected(items[j], names)}
    IN  IF c = {} THEN Len(items) + 1 ELSE CHOOSE j \in c : \A k \in c : j <= k

\* '"Item" in response' of get_item on the table.
AlreadyNotifiedMutNever(name, table) == FALSE

AlreadyNotified(name, table) == name \in table

\* 'if not should_notify: return ...' after the loops.
AfterInsertsMutAlwaysPublish(r) == [r EXCEPT !.pc = "all_publish"]

AfterInserts(r) ==
    IF ~r.should_notify
    THEN Return(r, SUCCESS, "Notification doesn't need to be sent")
    ELSE [r EXCEPT !.pc = "all_publish"]

\* The branch 'if player_count == 0 and is_db_empty / elif player_count == 0
\* and not is_db_empty / elif player_count > 0'.
ScanBranchMutNoNothing(player_count, is_db_empty) ==
    IF player_count = 0 /\ ~is_db_empty THEN "clear" ELSE "reconcile"

ScanBranchMutNoClear(player_count, is_db_empty) ==
    IF player_count = 0 THEN "nothing" ELSE "reconcile"

ScanBranch(player_count, is_db_empty) ==
    IF player_count = 0 /\ is_db_empty THEN "nothing"
    ELSE IF player_count = 0 /\ ~is_db_empty THEN "clear"
    ELSE "reconcile"

\* The end of one iteration of 'for name in current_player_names'.
NextNameMutFirstOnly(r) == AfterInserts(r)

NextName(r) ==
    IF r.idx < Len(r.current_player_names)
    THEN [r EXCEPT !.idx = @ + 1, !.pc = "all_get"]
    ELSE AfterInserts(r)

\* The start of 'for name in current_player_names', table being the records
\* left by the disconnect check.
EnterInserts(r, table) ==
    LET r1 == [r EXCEPT !.db_after_disconnects = table]
    IN  IF Len(r1.current_player_names) = 0
        THEN AfterInserts(r1)
        ELSE [r1 EXCEPT !.idx = 1, !.pc = "all_get"]

\* lambda_handler dispatching to all_mode, which creates its clients.
AllStart(p) ==
    /\ inv[p].pc \in {"idle", "done", "raised"}
    /\ Config.MODE = "all"
    /\ inv' = [inv EXCEPT ![p] = [Fresh EXCEPT !.pc = "all_query", !.mode = "all", !.db_at_start = db]]
    /\ UNCHANGED <<db, s3, clock, Config, announced, crossings>>

\* srv.getPlayers() and the filter of the names.
AllQuery(p, players) ==
    /\ inv[p].pc = "all_query"
    /\ LET names == NonEmptyNames(players)
       IN  /\ inv' = [inv EXCEPT ![p] =
                        [Issue(@, "query", "") EXCEPT
                            !.player_count = Len(players),
                            !.current_players = players,
                            !.current_player_names = names,
                            !.pc = "all_scan"]]
           /\ announced' = [n \in PlayerNames |->
                                IF n \in SeqToSet(players) THEN announced[n] ELSE 0]
    /\ UNCHANGED <<db, s3, clock, Config, crossings>>

\* dynamo_db_client.scan and the three-way branch on player_count.
AllScan(p) ==
    /\ inv[p].pc = "all_scan"
    /\ \E order \in Orders(db) :
       LET r == [Issue(inv[p], "scan", "") EXCEPT !.items = order]
           is_db_empty == ~(Len(order) > 0)
           first == NextDisconnected(order, r.current_player_names, 1)
       IN  inv' = [inv EXCEPT ![p] =
                IF ScanBranch(r.player_count, is_db_empty) = "nothing"
                THEN Return(r, SUCCESS, "There were no players")
                ELSE IF ScanBranch(r.player_count, is_db_empty) = "clear"
                THEN [r EXCEPT !.pc = "all_clear", !.idx = 1]
                ELSE IF ~is_db_empty /\ first <= Len(order)
                THEN [r EXCEPT !.pc = "all_delete", !.idx = first]
                ELSE EnterInserts(r, db)]
    /\ UNCHANGED <<db, s3, clock, Config, announced, crossings>>

\* delete_item of the loop that clears the table when nobody is playing.
AllClear(p) ==
    /\ inv[p].pc = "all_clear"
    /\ LET r == inv[p]
           name == r.items[r.idx]
       IN  /\ db' = db \ {name}
           /\ inv' = [inv EXCEPT ![p] =
                IF r.idx < Len(r.items)
                THEN [Issue(r, "delete", name) EXCEPT !.idx = @ + 1]
                ELSE Return(Issue(r, "delete", name), SUCCESS,
                            "There were no players in the server. Cleared database")]
    /\ UNCHANGED <<s3, clock, Config, announced, crossings>>

AllDeleteMutNotPersisted(p) ==
    /\ inv[p].pc = "all_delete"
    /\ LET r == inv[p]
           name == r.items[r.idx]
           next == NextDisconnected(r.items, r.current_player_names, r.idx + 1)
       IN  inv' = [inv EXCEPT ![p] =
                IF next <= Len(r.items)
                THEN [Issue(r, "delete", name) EXCEPT !.idx = next]
                ELSE EnterInserts(Issue(r, "delete", name), db)]
    /\ UNCHANGED <<db, s3, clock, Config, announced, crossings>>

\* delete_item of the loop that removes the players who disconnected.
AllDelete(p) ==
    /\ inv[p].pc = "all_delete"
    /\ LET r == inv[p]
           name == r.items[r.idx]
           next == NextDisconnected(r.items, r.current_player_names, r.idx + 1)
       IN  /\ db' = db \ {name}
           /\ inv' = [inv EXCEPT ![p] =
                IF next <= Len(r.items)
                THEN [Issue(r, "delete", name) EXCEPT !.idx = next]
                ELSE EnterInserts(Issue(r, "delete", name), db')]
    /\ UNCHANGED <<s3, clock, Config, announced, crossings>>

\* get_item for the current name: known, or pending and to be stored.
AllGet(p) ==
    /\ inv[p].pc = "all_get"
    /\ LET r == inv[p]
           name == r.current_player_names[r.idx]
       IN  inv' = [inv EXCEPT ![p] =
                IF AlreadyNotified(name, db)
                THEN NextName(Issue(r, "get", name))
                ELSE [Issue(r, "get", name) EXCEPT
                        !.should_notify = TRUE,
                        !.pending_player_names = Append(@, name),
                        !.pc = "all_put"]]
    /\ UNCHANGED <<db, s3, clock, Config, announced, crossings>>

AllPutMutThenDelete(p) ==
    /\ inv[p].pc = "all_put"
    /\ LET r == inv[p]
           name == r.current_player_names[r.idx]
       IN  /\ db' = db \cup {name}
           /\ inv' = [inv EXCEPT ![p] =
                IF Len(r.items) > 0
                THEN [Issue(r, "put", name) EXCEPT !.idx = 1, !.pc = "all_delete"]
                ELSE NextName(Issue(r, "put", name))]
    /\ UNCHANGED <<s3, clock, Config, announced, crossings>>

AllPutMutNotPersisted(p) ==
    /\ inv[p].pc = "all_put"
    /\ LET r == inv[p]
           name == r.current_player_names[r.idx]
       IN  inv' = [inv EXCEPT ![p] = NextName(Issue(r, "put", name))]
    /\ UNCHANGED <<db, s3, clock, Config, announced, crossings>>

\* put_item of the pending name.
AllPut(p) ==
    /\ inv[p].pc = "all_put"
    /\ LET r == inv[p]
           name == r.current_player_names[r.idx]
       IN  /\ db' = db \cup {name}
           /\ inv' = [inv EXCEPT ![p] = NextName(Issue(r, "put", name))]
    /\ UNCHANGED <<s3, clock, Config, announced, crossings>>

\* sns_client.publish of the player-joined notification.
AllPublish(p) ==
    /\ inv[p].pc = "all_publish"
    /\ LET r == inv[p]
           message == FormatAll(r.player_count, r.pending_player_names)
       IN  /\ inv' = [inv EXCEPT ![p] =
                Return(Issue(r, "publish", [subject |-> "joined", message |-> message]),
                       SUCCESS, "Email sent successfully")]
           /\ announced' = [n \in PlayerNames |->
                IF n \in SeqToSet(r.pending_player_names)
                THEN (IF announced[n] < 2 THEN announced[n] + 1 ELSE 2)
                ELSE announced[n]]
    /\ UNCHANGED <<db, s3, clock, Config, crossings>>

AllNext(p) ==
    \/ AllStart(p)
    \/ \E players \in PlayerLists : AllQuery(p, players)
    \/ AllScan(p)
    \/ AllClear(p)
    \/ AllDelete(p)
    \/ AllGet(p)
    \/ AllPut(p)
    \/ AllPublish(p)

\* ---------------------------------------------------------- threshold mode

\* format_server_info_to_string in "threshold" mode: the fields the text embeds.
FormatThreshold(threshold, player_count, new_target_time) ==
    [template |-> "threshold",
     threshold |-> threshold,
     player_count |-> player_count,
     next_check |-> new_target_time.current_time_human_readable]

\* 'passed_target_time = current_time.current_time_seconds_int >= target_time_sec'
PassedTargetTimeMutAlways(current_time, target_time_sec) == TRUE

PassedTargetTimeMutNever(current_time, target_time_sec) == FALSE

PassedTargetTimeMutStrict(current_time, target_time_sec) ==
    current_time.current_time_seconds_int > target_time_sec

PassedTargetTime(current_time, target_time_sec) ==
    current_time.current_time_seconds_int >= target_time_sec

\* The branch 'if player_count == 0 / elif < threshold / elif >= threshold'.
CountBranchMutNoZeroCheck(player_count, threshold) ==
    IF player_count < threshold THEN "below" ELSE "reached"

CountBranchMutBelowReached(player_count, threshold) ==
    IF player_count = 0 THEN "no_players" ELSE "reached"

CountBranchMutThresholdFirst(player_count, threshold) ==
    IF player_count >= threshold THEN "reached"
    ELSE IF player_count = 0 THEN "no_players"
    ELSE "below"

CountBranch(player_count, threshold) ==
    IF player_count = 0 THEN "no_players"
    ELSE IF player_count < threshold THEN "below"
    ELSE "reached"

\* new_target_time.set_time(current_time_seconds_float + float(seconds of the timer))
NewTargetTimeMutNow(current_time, minutes) ==
    set_time(current_time.current_time_seconds_float)

NewTargetTimeMutMinutesAsSeconds(current_time, minutes) ==
    set_time(current_time.current_time_seconds_float + FloatOfSeconds(minutes))

NewTargetTimeMutBackward(current_time, minutes) ==
    set_time(current_time.current_time_seconds_float
             - FloatOfSeconds(convert_minutes_to_seconds(minutes)))

NewTargetTime(current_time, minutes) ==
    set_time(current_time.current_time_seconds_float
             + FloatOfSeconds(convert_minutes_to_seconds(minutes)))

\* The status code handle_timer_file_not_found returns after its notification.
TimerNotFoundStatusMutSuccess == SUCCESS

TimerNotFoundStatus == FAILURE

\* lambda_handler dispatching to threshold_mode, which creates its clients and
\* captures the current time, d ticks after the previous invocation started.
ThrStart(p, d) ==
    /\ inv[p].pc \in {"idle", "done", "raised"}
    /\ Config.MODE = "threshold"
    /\ clock + d <= MaxClock * TicksPerSecond
    /\ clock' = clock + d
    /\ inv' = [inv EXCEPT ![p] =
                [Fresh EXCEPT !.pc = "thr_get_timer",
                              !.mode = "threshold",
                              !.current_time = TimeType(clock'),
                              !.s3_at_start = s3]]
    /\ UNCHANGED <<db, s3, Config, announced, crossings>>

\* get_object and download_file of the timer file, the read of its line and
\* the comparison with the current time.
ThrGetTimer(p) ==
    /\ inv[p].pc = "thr_get_timer"
    /\ LET r == Issue(inv[p], "s3_get", "")
       IN  inv' = [inv EXCEPT ![p] =
                IF ~s3.exists
                THEN [r EXCEPT !.pc = "thr_init_upload",
                               !.new_target_time =
                                    NewTargetTime(r.current_time, Config.THRESHOLD_TIMER_MINUTES)]
                ELSE IF s3.body = <<>>
                THEN Raise(r, "thr_parse")
                ELSE IF int(s3.body) = 0
                THEN Caught(r, "thr_empty")
                ELSE IF ~PassedTargetTime(r.current_time, int(s3.body))
                THEN Return([r EXCEPT !.target_time_sec = int(s3.body)], SUCCESS,
                            "We haven't passed the target time yet. No need to do anything.")
                ELSE [r EXCEPT !.target_time_sec = int(s3.body), !.pc = "thr_query"]]
    /\ UNCHANGED <<db, s3, clock, Config, announced, crossings>>

ThrInitUploadMutNotPersisted(p) ==
    /\ inv[p].pc = "thr_init_upload"
    /\ LET r == inv[p]
           text == str(r.new_target_time.current_time_seconds_int)
       IN  inv' = [inv EXCEPT ![p] =
                        [Issue(r, "s3_put", text) EXCEPT !.pc = "thr_init_publish"]]
    /\ UNCHANGED <<db, s3, clock, Config, announced, crossings>>

\* upload_file of the timer file created by handle_timer_file_not_found.
ThrInitUpload(p) ==
    /\ inv[p].pc = "thr_init_upload"
    /\ LET r == inv[p]
           text == str(r.new_target_time.current_time_seconds_int)
       IN  /\ s3' = [exists |-> TRUE, body |-> text]
           /\ inv' = [inv EXCEPT ![p] =
                        [Issue(r, "s3_put", text) EXCEPT !.pc = "thr_init_publish"]]
    /\ UNCHANGED <<db, clock, Config, announced, crossings>>

\* send_email of handle_timer_file_not_found and its return.
ThrInitPublish(p) ==
    /\ inv[p].pc = "thr_init_publish"
    /\ LET r == inv[p]
           message == [template |-> "no_timer",
                       created |-> r.new_target_time.current_time_human_readable]
       IN  inv' = [inv EXCEPT ![p] =
                Return(Issue(r, "publish", [subject |-> "no_timer", message |-> message]),
                       TimerNotFoundStatus, "No timer file was found on S3")]
    /\ UNCHANGED <<db, s3, clock, Config, announced, crossings>>

\* srv.getPlayers(), the filter of the names and the branch on the count.
ThrQueryMutPersistsNames(p, players) ==
    /\ inv[p].pc = "thr_query"
    /\ LET r == [Issue(inv[p], "query", "") EXCEPT
                    !.player_count = Len(players),
                    !.current_players = players,
                    !.current_player_names = NonEmptyNames(players)]
           branch == CountBranch(r.player_count, Config.PLAYER_COUNT_THRESHOLD)
       IN  /\ inv' = [inv EXCEPT ![p] =
                IF branch = "no_players"
                THEN Return(r, SUCCESS, "There were no players")
                ELSE IF branch = "below"
                THEN Return(r, SUCCESS, "There are fewer players than the threshold")
                ELSE [r EXCEPT !.pc = "thr_upload",
                               !.new_target_time =
                                    NewTargetTime(r.current_time, Config.THRESHOLD_TIMER_MINUTES)]]
           /\ db' = SeqToSet(NonEmptyNames(players))
    /\ UNCHANGED <<s3, clock, Config, announced, crossings>>

ThrQuery(p, players) ==
    /\ inv[p].pc = "thr_query"
    /\ LET r == [Issue(inv[p], "query", "") EXCEPT
                    !.player_count = Len(players),
                    !.current_players = players,
                    !.current_player_names = NonEmptyNames(players)]
           branch == CountBranch(r.player_count, Config.PLAYER_COUNT_THRESHOLD)
       IN  inv' = [inv EXCEPT ![p] =
                IF branch = "no_players"
                THEN Return(r, SUCCESS, "There were no players")
                ELSE IF branch = "below"
                THEN Return(r, SUCCESS, "There are fewer players than the threshold")
                ELSE [r EXCEPT !.pc = "thr_upload",
                               !.new_target_time =
                                    NewTargetTime(r.current_time, Config.THRESHOLD_TIMER_MINUTES)]]
    /\ UNCHANGED <<db, s3, clock, Config, announced, crossings>>

ThrUploadMutNotPersisted(p) ==
    /\ inv[p].pc = "thr_upload"
    /\ LET r == inv[p]
           text == str(r.new_target_time.current_time_seconds_int)
       IN  inv' = [inv EXCEPT ![p] =
                        [Issue(r, "s3_put", text) EXCEPT !.pc = "thr_publish"]]
    /\ UNCHANGED <<db, s3, clock, Config, announced, crossings>>

\* upload_file of the timer file holding the new target time.
ThrUpload(p) ==
    /\ inv[p].pc = "thr_upload"
    /\ LET r == inv[p]
           text == str(r.new_target_time.current_time_seconds_int)
       IN  /\ s3' = [exists |-> TRUE, body |-> text]
           /\ inv' = [inv EXCEPT ![p] =
                        [Issue(r, "s3_put", text) EXCEPT !.pc = "thr_publish"]]
    /\ UNCHANGED <<db, clock, Config, announced, crossings>>

\* send_email of the threshold notification and the return.
ThrPublish(p) ==
    /\ inv[p].pc = "thr_publish"
    /\ LET r == inv[p]
           message == FormatThreshold(Config.PLAYER_COUNT_THRESHOLD, r.player_count,
                                      r.new_target_time)
       IN  /\ inv' = [inv EXCEPT ![p] =
                Return(Issue(r, "publish", [subject |-> "threshold", message |-> message]),
                       SUCCESS, "Email sent successfully")]
           /\ crossings' = [last |-> r.current_time.current_time_seconds_int,
                            prev |-> crossings.last]
    /\ UNCHANGED <<db, s3, clock, Config, announced>>

ThrNext(p) ==
    \/ \E d \in Elapsed : ThrStart(p, d)
    \/ ThrGetTimer(p)
    \/ ThrInitUpload(p)
    \/ ThrInitPublish(p)
    \/ \E players \in PlayerLists : ThrQuery(p, players)
    \/ ThrUpload(p)
    \/ ThrPublish(p)

\* The steps of a threshold_mode invocation that has started.
ThrSteps(p) ==
    \/ ThrGetTimer(p)
    \/ ThrInitUpload(p)
    \/ ThrInitPublish(p)
    \/ \E players \in PlayerLists : ThrQuery(p, players)
    \/ ThrUpload(p)
    \/ ThrPublish(p)

\* ---------------------------------------------------------- specification

\* Invocations serialized by the scheduler, every external call succeeding.
Next == \E p \in SeqProcs : AllNext(p) \/ ThrNext(p)

Spec == Init /\ [][Next]_vars

\* ------------------------------------------------ observers of a run

\* The calls of kind op an invocation has issued, in order.
CallsOf(r, op) == SelectSeq(r.calls, LAMBDA c : c.op = op)

\* The arguments of those calls.
ArgsOf(r, op) == [i \in 1..Len(CallsOf(r, op)) |-> CallsOf(r, op)[i].arg]

\* The notifications of a given subject an invocation has published.
Published(r, subject) == SelectSeq(CallsOf(r, "publish"), LAMBDA c : c.arg.subject = subject)

NoDuplicates(s) == \A i, j \in 1..Len(s) : s[i] = s[j] => i = j

\* The names of the snapshot that are not "".
SnapshotNames(r) == SeqToSet(r.current_players) \ {""}

AllDone(p) == inv[p].mode = "all" /\ inv[p].pc = "done"

ThrDone(p) == inv[p].mode = "threshold" /\ inv[p].pc = "done"

\* The 'now' of a threshold invocation, in whole seconds, as the clock gave it.
NowSeconds(r) == r.current_time.current_time_seconds_float \div TicksPerSecond

\* The target time the timer held when the invocation started.
TargetAtStart(r) == int(r.s3_at_start.body)

CooldownSeconds == Config.THRESHOLD_TIMER_MINUTES * MINUTES_TO_SECONDS_MULTIPLIER

\* The timer was there, its target time had passed and the count reached the
\* threshold: the case of the crossing branch.
Crossed(r) ==
    /\ r.s3_at_start.exists
    /\ NowSeconds(r) >= TargetAtStart(r)
    /\ r.player_count > 0
    /\ r.player_count >= Config.PLAYER_COUNT_THRESHOLD

\* ------------------------------------------------------------------ claims

\* C1: at the end of every all_mode invocation the table holds exactly the
\* non-empty names of the invocation's snapshot when the reported count is
\* > 0, and nothing when the count is 0, whatever it held before.
C1_Convergence ==
    \A p \in Procs :
        AllDone(p) =>
            IF inv[p].player_count > 0
            THEN db = SnapshotNames(inv[p])
            ELSE db = {}

\* C1 witness: an invocation ended having removed a name that left and stored
\* a name that joined.
C1_Witness ==
    \E p \in Procs :
        /\ AllDone(p)
        /\ inv[p].player_count > 0
        /\ inv[p].db_at_start \ SnapshotNames(inv[p]) # {}
        /\ SnapshotNames(inv[p]) \ inv[p].db_at_start # {}
        /\ inv[p].db_at_start \cap SnapshotNames(inv[p]) # {}

\* C2: two threshold notifications are sent by invocations whose 'now' are at
\* least THRESHOLD_TIMER_MINUTES * 60 seconds apart, and no threshold
\* notification is sent by an invocation whose 'now' is before the target time
\* the timer held when it started.
C2_Cooldown ==
    /\ crossings.prev >= 0 => crossings.last - crossings.prev >= CooldownSeconds
    /\ \A p \in Procs :
        (inv[p].mode = "threshold" /\ Len(Published(inv[p], "threshold")) > 0) =>
            /\ inv[p].s3_at_start.exists
            /\ NowSeconds(inv[p]) >= TargetAtStart(inv[p])

\* C2 witness: a second threshold notification sent exactly one cooldown after
\* the one before it.
C2_Witness ==
    /\ crossings.prev >= 0
    /\ crossings.last - crossings.prev = CooldownSeconds

\* C3: a name that was in the table when the invocation started and is in its
\* snapshot is not listed in its notification; a name that stays in every
\* snapshot has been listed in exactly one notification, that of the first
\* invocation that saw it.
C3_NoRepeat ==
    \A p \in Procs :
        /\ inv[p].mode = "all" =>
            \A i \in 1..Len(CallsOf(inv[p], "publish")) :
                SeqToSet(CallsOf(inv[p], "publish")[i].arg.message.player_names)
                    \cap (inv[p].db_at_start \cap SnapshotNames(inv[p])) = {}
        /\ AllDone(p) => \A n \in SnapshotNames(inv[p]) : announced[n] = 1

\* C3 witness: a notification was sent for a newcomer while a name that was
\* already stored and is still playing was left out of it.
C3_Witness ==
    \E p \in Procs :
        /\ AllDone(p)
        /\ Len(CallsOf(inv[p], "publish")) = 1
        /\ \E n \in inv[p].db_at_start \cap SnapshotNames(inv[p]) :
            /\ announced[n] = 1
            /\ n \notin SeqToSet(inv[p].pending_player_names)

\* C4: with count > 0 the joined names are exactly the non-empty names of the
\* snapshot that the table did not hold after the disconnect check, each one
\* once and each one stored; names the table already held are neither stored
\* again nor joined.
C4_JoinDetection ==
    \A p \in Procs :
        (AllDone(p) /\ inv[p].player_count > 0) =>
            /\ SeqToSet(inv[p].pending_player_names)
                = SnapshotNames(inv[p]) \ inv[p].db_after_disconnects
            /\ NoDuplicates(inv[p].pending_player_names)
            /\ ArgsOf(inv[p], "put") = inv[p].pending_player_names
            /\ db = inv[p].db_after_disconnects \cup SeqToSet(inv[p].pending_player_names)

\* C4 witness: the table held {A}, the snapshot is A, B: joined is [B] and the
\* table holds {A, B}.
C4_Witness ==
    \E p \in Procs :
        /\ AllDone(p)
        /\ inv[p].db_after_disconnects = {"A"}
        /\ inv[p].current_players = <<"A", "B">>
        /\ inv[p].pending_player_names = <<"B">>
        /\ db = {"A", "B"}

\* C5: an all_mode invocation publishes one notification, listing the joined
\* names, exactly when the joined list is not empty; with an empty joined list
\* (every count = 0 outcome included) it publishes nothing; it returns SUCCESS.
C5_NotificationRule ==
    \A p \in Procs :
        /\ inv[p].mode = "all" => Len(CallsOf(inv[p], "publish")) <= 1
        /\ AllDone(p) =>
            /\ inv[p].ret.statusCode = SUCCESS
            /\ inv[p].player_count = 0 => inv[p].pending_player_names = <<>>
            /\ IF inv[p].pending_player_names # <<>>
               THEN /\ Len(Published(inv[p], "joined")) = 1
                    /\ Len(CallsOf(inv[p], "publish")) = 1
                    /\ Published(inv[p], "joined")[1].arg.message.player_names
                        = inv[p].pending_player_names
               ELSE CallsOf(inv[p], "publish") = <<>>

\* C5 witness: an invocation ended having published its two joined names.
C5_Witness ==
    \E p \in Procs :
        /\ AllDone(p)
        /\ Len(inv[p].pending_player_names) = 2
        /\ Len(Published(inv[p], "joined")) = 1

\* C6: with count = 0 and records in the table the invocation deletes every
\* record, publishes nothing, stores nothing and returns SUCCESS.
C6_EmptyServerClears ==
    \A p \in Procs :
        (AllDone(p) /\ inv[p].player_count = 0 /\ inv[p].db_at_start # {}) =>
            /\ SeqToSet(ArgsOf(inv[p], "delete")) = inv[p].db_at_start
            /\ Len(ArgsOf(inv[p], "delete")) = Cardinality(inv[p].db_at_start)
            /\ db = {}
            /\ CallsOf(inv[p], "publish") = <<>>
            /\ CallsOf(inv[p], "put") = <<>>
            /\ inv[p].ret.statusCode = SUCCESS

\* C6 witness: an invocation that found two records and no players has ended.
C6_Witness ==
    \E p \in Procs :
        /\ AllDone(p)
        /\ inv[p].player_count = 0
        /\ Cardinality(inv[p].db_at_start) = 2
        /\ db = {}

\* C7: in the crossing case the invocation writes the timer once, with
\* now.epochSeconds + THRESHOLD_TIMER_MINUTES * 60, then sends one notification
\* whose text embeds that target time, and returns SUCCESS.
C7_ThresholdCrossing ==
    \A p \in Procs :
        (ThrDone(p) /\ Crossed(inv[p])) =>
            LET target == NowSeconds(inv[p]) + CooldownSeconds
            IN  /\ ArgsOf(inv[p], "s3_put") = <<str(target)>>
                /\ s3 = [exists |-> TRUE, body |-> str(target)]
                /\ Len(CallsOf(inv[p], "publish")) = 1
                /\ Len(Published(inv[p], "threshold")) = 1
                /\ Published(inv[p], "threshold")[1].arg.message.next_check
                    = <<"ctime", target>>
                /\ inv[p].calls[Len(inv[p].calls) - 1].op = "s3_put"
                /\ inv[p].calls[Len(inv[p].calls)].op = "publish"
                /\ inv[p].ret.statusCode = SUCCESS

\* C7 witness: a crossing at an instant that is not a whole second, with more
\* players than the threshold asks for.
C7_Witness ==
    \E p \in Procs :
        /\ ThrDone(p)
        /\ Crossed(inv[p])
        /\ inv[p].current_time.current_time_seconds_float % TicksPerSecond # 0
        /\ inv[p].player_count > Config.PLAYER_COUNT_THRESHOLD
        /\ Len(Published(inv[p], "threshold")) = 1

\* C8: a threshold notification is sent, and an existing timer overwritten,
\* only in the crossing case; the suppressed, zero-player and below-threshold
\* outcomes publish nothing.
C8_CrossingExclusive ==
    \A p \in Procs :
        inv[p].mode = "threshold" =>
            /\ Len(Published(inv[p], "threshold")) > 0 => Crossed(inv[p])
            /\ (inv[p].s3_at_start.exists /\ Len(CallsOf(inv[p], "s3_put")) > 0)
                    => Crossed(inv[p])
            /\ (inv[p].pc = "done" /\ inv[p].s3_at_start.exists /\ ~Crossed(inv[p]))
                    => /\ CallsOf(inv[p], "publish") = <<>>
                       /\ s3 = inv[p].s3_at_start

\* C8 witness: the target time had passed, the threshold is 0 and nobody is
\* playing: the invocation ended without a notification.
C8_Witness ==
    \E p \in Procs :
        /\ ThrDone(p)
        /\ inv[p].s3_at_start.exists
        /\ NowSeconds(inv[p]) >= TargetAtStart(inv[p])
        /\ Len(CallsOf(inv[p], "query")) = 1
        /\ inv[p].player_count = 0
        /\ Config.PLAYER_COUNT_THRESHOLD = 0

\* C9: with the timer present and now.epochSeconds < targetTime the invocation
\* does not query the server, does not write the timer, sends no notification
\* and returns SUCCESS.
C9_GateSuppression ==
    \A p \in Procs :
        (/\ inv[p].mode = "threshold"
         /\ inv[p].s3_at_start.exists
         /\ NowSeconds(inv[p]) < TargetAtStart(inv[p])) =>
            /\ inv[p].pc \in {"thr_get_timer", "done"}
            /\ CallsOf(inv[p], "query") = <<>>
            /\ CallsOf(inv[p], "s3_put") = <<>>
            /\ CallsOf(inv[p], "publish") = <<>>
            /\ s3 = inv[p].s3_at_start
            /\ inv[p].pc = "done" => inv[p].ret.statusCode = SUCCESS

\* C9 witness: an invocation one second short of the target time has ended.
C9_Witness ==
    \E p \in Procs :
        /\ ThrDone(p)
        /\ inv[p].s3_at_start.exists
        /\ NowSeconds(inv[p]) = TargetAtStart(inv[p]) - 1

\* C10: with no timer record the invocation stores now.epochSeconds +
\* THRESHOLD_TIMER_MINUTES * 60, sends one initialization notification, does
\* not query the server and returns the FAILURE status code, 300.
C10_TimerInitialization ==
    \A p \in Procs :
        (ThrDone(p) /\ ~inv[p].s3_at_start.exists) =>
            LET target == NowSeconds(inv[p]) + CooldownSeconds
            IN  /\ s3 = [exists |-> TRUE, body |-> str(target)]
                /\ ArgsOf(inv[p], "s3_put") = <<str(target)>>
                /\ Len(CallsOf(inv[p], "publish")) = 1
                /\ Len(Published(inv[p], "no_timer")) = 1
                /\ CallsOf(inv[p], "query") = <<>>
                /\ inv[p].ret.statusCode = 300
                /\ inv[p].ret.statusCode # SUCCESS

\* C10 witness: an invocation that found no timer, at an instant that is not a
\* whole second, has ended.
C10_Witness ==
    \E p \in Procs :
        /\ ThrDone(p)
        /\ ~inv[p].s3_at_start.exists
        /\ inv[p].current_time.current_time_seconds_float % TicksPerSecond # 0
        /\ s3.exists

\* C11: under serialized invocations every write of the timer stores a target
\* time that is not before the instant of the writing invocation and not
\* before the target time the timer held: the target never moves backward.
C11_TimerMonotonic ==
    [][(s3' # s3) =>
        /\ s3'.exists
        /\ int(s3'.body) >= IntOfTicks(clock)
        /\ s3.exists => int(s3'.body) >= int(s3.body)]_vars

\* C11 witness: an invocation has written a later target time over the one
\* the timer held.
C11_Witness ==
    \E p \in Procs :
        /\ inv[p].mode = "threshold"
        /\ inv[p].s3_at_start.exists
        /\ s3.exists
        /\ int(s3.body) > TargetAtStart(inv[p])

\* ------------------------------------------- termination of an invocation

\* What is left of an invocation the platform terminated: the calls it had
\* completed; its locals are gone.
Remains(r) ==
    [Fresh EXCEPT !.pc = "terminated", !.mode = r.mode, !.calls = r.calls]

\* The platform terminates the running invocation between two of its steps.
Terminate(p) ==
    /\ inv[p].pc \notin {"idle", "done", "terminated", "raised", "handle_error"}
    /\ \A q \in Procs \ {p} : inv[q].pc = "idle"
    /\ inv' = [inv EXCEPT ![p] = Remains(@)]
    /\ UNCHANGED <<db, s3, clock, Config, announced, crossings>>

\* The terminated container is discarded once the next invocation, served by
\* another container, has returned.
Reclaim(p, q) ==
    /\ inv[p].pc = "terminated"
    /\ inv[q].pc = "done"
    /\ inv' = [inv EXCEPT ![p] = Fresh, ![q] = Fresh]
    /\ UNCHANGED <<db, s3, clock, Config, announced, crossings>>

\* The start of an invocation when the scheduler serializes them: in the
\* first container while no other is in use, in another container, once, after
\* the first was terminated.
CrashStart(p, d) ==
    /\ IF p \in SeqProcs
       THEN \A q \in Procs \ {p} : inv[q].pc = "idle"
       ELSE inv[p].pc = "idle" /\ \E q \in SeqProcs : inv[q].pc = "terminated"
    /\ ThrStart(p, d)

\* threshold_mode invocations serialized by the scheduler, any of which the
\* platform may terminate; the next one then runs in another container.
CrashNext ==
    \/ \E p \in Procs :
        \/ \E d \in Elapsed : CrashStart(p, d)
        \/ ThrSteps(p)
    \/ \E p \in SeqProcs : Terminate(p)
    \/ \E p \in SeqProcs, q \in Procs \ SeqProcs : Reclaim(p, q)

InitThreshold == Init /\ Config.MODE = "threshold"

\* The runs with terminations are configured with the largest threshold, under
\* which the count can be zero, below the threshold or at it.
InitCrash == InitThreshold /\ Config.PLAYER_COUNT_THRESHOLD = MaxThreshold

SpecCrash == InitCrash /\ [][CrashNext]_vars

\* The invocation was terminated in the crossing branch after its timer write
\* and before its publish.
TerminatedAfterWrite(r) ==
    /\ r.pc = "terminated"
    /\ Len(r.calls) >= 2
    /\ r.calls[Len(r.calls)].op = "s3_put"
    /\ r.calls[Len(r.calls) - 1].op = "query"

\* The target time such an invocation wrote.
WrittenTarget(r) == int(r.calls[Len(r.calls)].arg)

\* C12: the timer write of the crossing branch completes before the publish;
\* when an invocation is terminated between the two, the next invocation whose
\* now is before the written target time is suppressed and publishes nothing.
C12_PersistBeforeNotify ==
    /\ \A p \in Procs : \A i \in 1..Len(inv[p].calls) :
        (inv[p].calls[i].op = "publish" /\ inv[p].calls[i].arg.subject = "threshold")
            => (i > 1 /\ inv[p].calls[i - 1].op = "s3_put")
    /\ \A p, q \in Procs :
        (/\ TerminatedAfterWrite(inv[p])
         /\ q # p
         /\ inv[q].mode = "threshold"
         /\ ~PassedTargetTime(inv[q].current_time, WrittenTarget(inv[p])))
        => /\ CallsOf(inv[q], "query") = <<>>
           /\ CallsOf(inv[q], "publish") = <<>>
           /\ CallsOf(inv[q], "s3_put") = <<>>
           /\ inv[q].pc \in {"thr_get_timer", "done"}
           /\ inv[q].pc = "done" => inv[q].ret.statusCode = SUCCESS

\* C12 witness: an invocation was terminated between write and publish and
\* the next one, started before the written target time, returned suppressed.
C12_Witness ==
    \E p, q \in Procs :
        /\ TerminatedAfterWrite(inv[p])
        /\ ThrDone(q)
        /\ ~PassedTargetTime(inv[q].current_time, WrittenTarget(inv[p]))
        /\ CallsOf(inv[q], "publish") = <<>>

\* ------------------------------------------------- failing external calls

\* The steps of all_mode that call an external service; none is in a try.
AllCallSites ==
    {"all_query", "all_scan", "all_clear", "all_delete", "all_get", "all_put", "all_publish"}

\* A call of all_mode raises.
AllCallFails(p) ==
    /\ inv[p].pc \in AllCallSites
    /\ inv' = [inv EXCEPT ![p] = Raise(@, @.pc)]
    /\ UNCHANGED <<db, s3, clock, Config, announced, crossings>>

ThrGetTimerFailsMutNotFound(p) ==
    /\ inv[p].pc = "thr_get_timer"
    /\ LET r == inv[p]
       IN  inv' = [inv EXCEPT ![p] =
                [r EXCEPT !.pc = "thr_init_upload",
                          !.failed = Append(r.failed, "thr_get_timer"),
                          !.new_target_time =
                              NewTargetTime(r.current_time, Config.THRESHOLD_TIMER_MINUTES)]]
    /\ UNCHANGED <<db, s3, clock, Config, announced, crossings>>

\* get_object or download_file raises something other than NoSuchKey.
ThrGetTimerFails(p) ==
    /\ inv[p].pc = "thr_get_timer"
    /\ inv' = [inv EXCEPT ![p] = Caught(@, "thr_get_timer")]
    /\ UNCHANGED <<db, s3, clock, Config, announced, crossings>>

ThrUploadFailsMutPersists(p) ==
    /\ inv[p].pc \in {"thr_upload", "thr_init_upload"}
    /\ inv' = [inv EXCEPT ![p] = Caught(@, @.pc)]
    /\ s3' = [exists |-> TRUE,
              body |-> str(inv[p].new_target_time.current_time_seconds_int)]
    /\ UNCHANGED <<db, clock, Config, announced, crossings>>

ThrUploadFailsMutLosesTimer(p) ==
    /\ inv[p].pc \in {"thr_upload", "thr_init_upload"}
    /\ inv' = [inv EXCEPT ![p] = Caught(@, @.pc)]
    /\ s3' = [exists |-> FALSE, body |-> <<>>]
    /\ UNCHANGED <<db, clock, Config, announced, crossings>>

\* upload_file raises, in the crossing branch or in handle_timer_file_not_found.
ThrUploadFails(p) ==
    /\ inv[p].pc \in {"thr_upload", "thr_init_upload"}
    /\ inv' = [inv EXCEPT ![p] = Caught(@, @.pc)]
    /\ UNCHANGED <<db, s3, clock, Config, announced, crossings>>

\* srv.getPlayers() of threshold_mode raises; it is not in a try.
ThrQueryFails(p) ==
    /\ inv[p].pc = "thr_query"
    /\ inv' = [inv EXCEPT ![p] = Raise(@, "thr_query")]
    /\ UNCHANGED <<db, s3, clock, Config, announced, crossings>>

\* send_email of threshold_mode or of handle_timer_file_not_found raises.
ThrPublishFails(p) ==
    /\ inv[p].pc \in {"thr_publish", "thr_init_publish"}
    /\ inv' = [inv EXCEPT ![p] = Raise(@, @.pc)]
    /\ UNCHANGED <<db, s3, clock, Config, announced, crossings>>

\* handle_error: the error notification and the failure return message.
handle_error(p) ==
    /\ inv[p].pc = "handle_error"
    /\ LET r == inv[p]
           error_message == r.failed[Len(r.failed)]
       IN  inv' = [inv EXCEPT ![p] =
                Return(Issue(r, "publish", [subject |-> "error", message |-> error_message]),
                       300, error_message)]
    /\ UNCHANGED <<db, s3, clock, Config, announced, crossings>>

\* send_email of handle_error raises.
HandleErrorFails(p) ==
    /\ inv[p].pc = "handle_error"
    /\ inv' = [inv EXCEPT ![p] = Raise(@, "handle_error")]
    /\ UNCHANGED <<db, s3, clock, Config, announced, crossings>>

\* Between two invocations, when the locals of the last one are gone, the
\* timer file is replaced, outside the program, by an empty file or by one
\* holding 0.
TimerTampered ==
    /\ s3.exists
    /\ \A p \in Procs : inv[p].pc \in {"idle", "done", "raised"}
    /\ \E text \in {<<>>, str(0)} :
        /\ s3.body # text
        /\ s3' = [exists |-> TRUE, body |-> text]
    /\ inv' = [p \in Procs |-> Fresh]
    /\ UNCHANGED <<db, clock, Config, announced, crossings>>

FailNext ==
    \/ \E p \in SeqProcs :
        \/ AllNext(p)
        \/ ThrNext(p)
        \/ AllCallFails(p)
        \/ ThrGetTimerFails(p)
        \/ ThrUploadFails(p)
        \/ ThrQueryFails(p)
        \/ ThrPublishFails(p)
        \/ handle_error(p)
        \/ HandleErrorFails(p)
    \/ TimerTampered

\* Invocations serialized by the scheduler, any external call possibly failing.
SpecFail == Init /\ [][FailNext]_vars

\* The invocation is over: it returned or an exception left it.
Ended(r) == r.pc \in {"done", "raised"}

\* C13: whatever external call fails, in either mode, the invocation ends by
\* sending one error notification and returning FAILURE; no exception leaves
\* it uncaught.
C13_NoErrorEscapes ==
    \A p \in Procs :
        (inv[p].failed # <<>> /\ Ended(inv[p]))
        => /\ inv[p].pc = "done"
           /\ inv[p].ret.statusCode = FAILURE
           /\ Len(Published(inv[p], "error")) = 1

\* C14: when the upload of the crossing branch fails, no threshold
\* notification is sent and the timer keeps its value; handle_error sends the
\* one error notification and returns FAILURE, and only a failure of that very
\* notification can end the invocation otherwise.
C14_UploadFailure ==
    \A p \in Procs :
        (inv[p].failed # <<>> /\ inv[p].failed[1] = "thr_upload")
        => /\ Published(inv[p], "threshold") = <<>>
           /\ CallsOf(inv[p], "s3_put") = <<>>
           /\ s3 = inv[p].s3_at_start
           /\ inv[p].pc \in {"handle_error", "done", "raised"}
           /\ inv[p].pc = "done" =>
                /\ inv[p].ret.statusCode = FAILURE
                /\ Len(CallsOf(inv[p], "publish")) = 1
                /\ Len(Published(inv[p], "error")) = 1
           /\ inv[p].pc = "raised" =>
                /\ inv[p].failed = <<"thr_upload", "handle_error">>
                /\ CallsOf(inv[p], "publish") = <<>>

\* C14 witness: the upload of the crossing branch failed and the invocation
\* returned after its error notification.
C14_Witness ==
    \E p \in Procs :
        /\ inv[p].pc = "done"
        /\ inv[p].failed = <<"thr_upload">>
        /\ inv[p].player_count > 0
        /\ Len(Published(inv[p], "error")) = 1

\* C15: when the retrieval of the timer fails for a reason other than
\* not-found, the timer is not written, the server is not queried, and
\* handle_error sends the one error notification and returns FAILURE.
C15_RetrievalFailure ==
    \A p \in Procs :
        (inv[p].failed # <<>> /\ inv[p].failed[1] = "thr_get_timer")
        => /\ s3 = inv[p].s3_at_start
           /\ CallsOf(inv[p], "s3_put") = <<>>
           /\ CallsOf(inv[p], "query") = <<>>
           /\ inv[p].pc \in {"handle_error", "done", "raised"}
           /\ inv[p].pc = "done" =>
                /\ inv[p].ret.statusCode = FAILURE
                /\ Len(CallsOf(inv[p], "publish")) = 1
                /\ Len(Published(inv[p], "error")) = 1
           /\ inv[p].pc = "raised" =>
                /\ inv[p].failed = <<"thr_get_timer", "handle_error">>
                /\ CallsOf(inv[p], "publish") = <<>>

\* C15 witness: the retrieval of an existing timer failed and the invocation
\* returned after its error notification.
C15_Witness ==
    \E p \in Procs :
        /\ inv[p].pc = "done"
        /\ inv[p].failed = <<"thr_get_timer">>
        /\ inv[p].s3_at_start.exists
        /\ Len(Published(inv[p], "error")) = 1

\* C16: when the query of the game server fails, in either mode, the table
\* and the timer are as the invocation found them, no record was inserted or
\* deleted, nothing was published and the query is not tried again.
C16_QueryFailure ==
    \A p \in Procs :
        (inv[p].failed # <<>> /\ inv[p].failed[1] \in {"all_query", "thr_query"})
        => /\ db = inv[p].db_at_start
           /\ s3 = inv[p].s3_at_start
           /\ CallsOf(inv[p], "put") = <<>>
           /\ CallsOf(inv[p], "delete") = <<>>
           /\ CallsOf(inv[p], "s3_put") = <<>>
           /\ CallsOf(inv[p], "publish") = <<>>
           /\ CallsOf(inv[p], "query") = <<>>
           /\ inv[p].pc = "raised"

\* C16 witness: the query failed while the table held players.
C16_Witness ==
    \E p \in Procs :
        /\ inv[p].failed = <<"all_query">>
        /\ inv[p].pc = "raised"
        /\ db # {}

\* C20: every invocation that returns yields statusCode and body, the code
\* being 200 or 300: 300 exactly when a call failed or the timer file was
\* missing, 200 on every other outcome.
C20_ResultEnvelope ==
    \A p \in Procs :
        inv[p].pc = "done"
        => /\ DOMAIN inv[p].ret = {"statusCode", "body"}
           /\ inv[p].ret.statusCode \in {SUCCESS, FAILURE}
           /\ inv[p].ret.statusCode = FAILURE
                <=> (inv[p].failed # <<>> \/ Published(inv[p], "no_timer") # <<>>)
           /\ inv[p].ret.statusCode = SUCCESS
                <=> (inv[p].failed = <<>> /\ Published(inv[p], "error") = <<>>
                     /\ Published(inv[p], "no_timer") = <<>>)

\* C20 witness: an invocation returned 300 after a failed call, having
\* written nothing.
C20_Witness ==
    \E p \in Procs :
        /\ inv[p].pc = "done"
        /\ inv[p].failed # <<>>
        /\ inv[p].ret.statusCode = 300

\* ------------------------------------------------ overlapping invocations

\* The scheduler serializes the invocations of one container and lets a
\* single invocation of a second container overlap one of them: an invocation
\* starts only while the second container is idle, and the second container
\* starts its invocation while one of the first is running.
OverlapStart(p) ==
    inv[p].pc \in {"idle", "done", "raised"}
        => /\ \A q \in Procs \ SeqProcs : inv[q].pc = "idle"
           /\ p \notin SeqProcs
                => \E q \in SeqProcs : inv[q].pc \notin {"idle", "done", "raised"}

InitAll == Init /\ Config.MODE = "all"

\* The players a snapshot of the overlapping runs reports at most.
ConcMaxPlayers == 1

ConcPlayerLists == UNION {[1..n -> ReportedNames] : n \in 0..ConcMaxPlayers}

OverlapAllStart(p) == OverlapStart(p) /\ AllStart(p)

\* Overlapping all_mode invocations: their steps interleave.
ConcAllNext ==
    \E p \in Procs :
        \/ OverlapAllStart(p)
        \/ \E players \in ConcPlayerLists : AllQuery(p, players)
        \/ AllScan(p)
        \/ AllClear(p)
        \/ AllDelete(p)
        \/ AllGet(p)
        \/ AllPut(p)
        \/ AllPublish(p)

SpecConcAll == InitAll /\ [][ConcAllNext]_vars

\* The names the player-joined notification of an invocation lists.
Listed(r) ==
    IF Published(r, "joined") = <<>> THEN {}
    ELSE SeqToSet(Published(r, "joined")[1].arg.message.player_names)

\* C17: overlapping all_mode invocations can both publish a notification
\* listing the same player: a name becomes pending exactly when the get_item
\* of the invocation finds it absent, which two invocations can both do
\* before either inserts it.
C17_OverlapDuplicates ==
    [][\A p \in Procs :
        (/\ inv[p].pc = "all_get"
         /\ inv'[p].pc # "all_get" \/ inv'[p].idx # inv[p].idx)
        => LET name == inv[p].current_player_names[inv[p].idx]
           IN  (inv'[p].pending_player_names # inv[p].pending_player_names)
                    <=> name \notin db]_vars

\* C17 witness: two overlapping invocations have both published a
\* notification listing the same player, neither having deleted it.
C17_Witness ==
    \E n \in PlayerNames :
        \A p \in Procs :
            /\ AllDone(p)
            /\ n \in Listed(inv[p])
            /\ n \notin SeqToSet(ArgsOf(inv[p], "delete"))

\* The seconds of clock the overlapping threshold_mode runs cover: enough for
\* the timer to be created, to expire and for two invocations to start a
\* minute apart after that.
ConcMaxClock == 180

OverlapThrStart(p, d) ==
    /\ OverlapStart(p)
    /\ clock + d <= ConcMaxClock * TicksPerSecond
    /\ ThrStart(p, d)

\* Overlapping threshold_mode invocations: their steps interleave.
ConcThrNext ==
    \E p \in Procs :
        \/ \E d \in Elapsed : OverlapThrStart(p, d)
        \/ ThrGetTimer(p)
        \/ ThrInitUpload(p)
        \/ ThrInitPublish(p)
        \/ \E players \in ConcPlayerLists : ThrQuery(p, players)
        \/ ThrUpload(p)
        \/ ThrPublish(p)

\* The overlapping runs are configured with the threshold their largest
\* snapshot reaches.
InitConcThr == InitThreshold /\ Config.PLAYER_COUNT_THRESHOLD = ConcMaxPlayers

SpecConcThr == InitConcThr /\ [][ConcThrNext]_vars

\* The invocation read a target time its 'now' had reached.
ReadExpired(r) ==
    r.current_time.current_time_seconds_float >= r.target_time_sec * TicksPerSecond

\* The two invocations captured their 'now' less than one cooldown apart.
WithinOneWindow(r1, r2) ==
    /\ NowSeconds(r1) - NowSeconds(r2) < CooldownSeconds
    /\ NowSeconds(r2) - NowSeconds(r1) < CooldownSeconds

\* C18: overlapping threshold_mode invocations can both send the threshold
\* notification within one cooldown window; when they do, both have read the
\* same expired target time, neither having read what the other wrote.
C18_OverlapDuplicates ==
    \A p, q \in Procs :
        (/\ p # q
         /\ Published(inv[p], "threshold") # <<>>
         /\ Published(inv[q], "threshold") # <<>>
         /\ WithinOneWindow(inv[p], inv[q]))
        => /\ inv[p].target_time_sec = inv[q].target_time_sec
           /\ inv[p].s3_at_start = inv[q].s3_at_start
           /\ ReadExpired(inv[p])
           /\ ReadExpired(inv[q])
           /\ int(ArgsOf(inv[q], "s3_put")[1]) # inv[p].target_time_sec

\* C18 witness: both overlapping invocations sent the threshold notification
\* less than one cooldown apart.
C18_Witness ==
    \A p \in Procs :
        /\ ThrDone(p)
        /\ Len(Published(inv[p], "threshold")) = 1
        /\ \A q \in Procs : WithinOneWindow(inv[p], inv[q])

\* C19: no write moves the persisted target time backward, overlapping
\* invocations included.
C19_NeverBackward ==
    [][(s3.exists /\ s3'.exists) => int(s3'.body) >= int(s3.body)]_vars

\* The invocation passed the gate and found 0 < count < threshold.
BelowThreshold(r) ==
    /\ r.mode = "threshold"
    /\ r.s3_at_start.exists
    /\ Len(CallsOf(r, "query")) = 1
    /\ 0 < r.player_count
    /\ r.player_count < Config.PLAYER_COUNT_THRESHOLD

\* C21: an eligible invocation that finds 0 < count < threshold writes no
\* timer, publishes nothing and returns SUCCESS; the cooldown is not re-armed,
\* so the invocation that follows passes the gate again.
C21_BelowThreshold ==
    /\ [](\A p \in Procs :
            BelowThreshold(inv[p]) =>
                /\ inv[p].pc = "done"
                /\ inv[p].ret.statusCode = SUCCESS
                /\ CallsOf(inv[p], "s3_put") = <<>>
                /\ CallsOf(inv[p], "publish") = <<>>
                /\ s3 = inv[p].s3_at_start)
    /\ [][\A p \in Procs :
            (BelowThreshold(inv[p]) /\ inv'[p].pc = "thr_get_timer")
                => inv'[p].current_time.current_time_seconds_float
                        >= int(s3'.body) * TicksPerSecond]_vars

\* C21 witness: an invocation that passed the gate found one player under a
\* threshold of two and returned.
C21_Witness ==
    \E p \in Procs :
        /\ ThrDone(p)
        /\ BelowThreshold(inv[p])
        /\ inv[p].player_count = 1
        /\ Config.PLAYER_COUNT_THRESHOLD = 2

\* The invocation passed the gate and the server reported no players.
ZeroPlayers(r) ==
    /\ r.mode = "threshold"
    /\ r.s3_at_start.exists
    /\ Len(CallsOf(r, "query")) = 1
    /\ r.player_count = 0

\* C22: an eligible threshold_mode invocation that finds count = 0 writes no
\* timer, publishes nothing and returns SUCCESS under every configured
\* threshold, 0 included, where count >= threshold holds as well.
C22_ZeroPlayersNeverNotify ==
    \A p \in Procs :
        ZeroPlayers(inv[p]) =>
            /\ inv[p].pc = "done"
            /\ inv[p].ret = generate_return_message(SUCCESS, "There were no players")
            /\ CallsOf(inv[p], "s3_put") = <<>>
            /\ CallsOf(inv[p], "publish") = <<>>
            /\ s3 = inv[p].s3_at_start

\* C22 witness: with the threshold at its minimum, 0, an eligible invocation
\* found an empty server, so that count >= threshold held, and returned 200.
C22_Witness ==
    \E p \in Procs :
        /\ ZeroPlayers(inv[p])
        /\ Config.PLAYER_COUNT_THRESHOLD = MIN_THRESHOLD
        /\ inv[p].player_count >= Config.PLAYER_COUNT_THRESHOLD
        /\ inv[p].ret.statusCode = 200

\* The invocation has read an existing timer and compared it with its now.
GateTaken(r) ==
    /\ r.mode = "threshold"
    /\ r.s3_at_start.exists
    /\ Len(CallsOf(r, "s3_get")) = 1

\* C23: the gate comparison is inclusive: an invocation whose whole-second now
\* equals the persisted target time goes on to query the server, and one
\* whose now is one second less returns suppressed without a query.
C23_InclusiveGate ==
    \A p \in Procs :
        GateTaken(inv[p]) =>
            /\ NowSeconds(inv[p]) = TargetAtStart(inv[p]) =>
                /\ inv[p].pc \in {"thr_query", "thr_upload", "thr_publish", "done"}
                /\ inv[p].pc # "thr_query" => Len(CallsOf(inv[p], "query")) = 1
            /\ NowSeconds(inv[p]) = TargetAtStart(inv[p]) - 1 =>
                /\ inv[p].pc = "done"
                /\ CallsOf(inv[p], "query") = <<>>
                /\ inv[p].ret = generate_return_message(SUCCESS,
                        "We haven't passed the target time yet. No need to do anything.")

\* C23 witness: an invocation whose whole-second now equals the target time
\* exactly has queried the server.
C23_Witness ==
    \E p \in Procs :
        /\ GateTaken(inv[p])
        /\ NowSeconds(inv[p]) = TargetAtStart(inv[p])
        /\ Len(CallsOf(inv[p], "query")) = 1

\* The invocation found no timer, initialized it and returned.
Initialized(r) ==
    /\ r.mode = "threshold"
    /\ r.pc = "done"
    /\ ~r.s3_at_start.exists
    /\ Len(Published(r, "no_timer")) = 1

\* C24: the invocation that follows an initialization at second t finds the
\* timer holding t + THRESHOLD_TIMER_MINUTES * 60; started before that second
\* it is suppressed and publishes nothing; and only an invocation that found
\* the timer absent initializes it.
C24_InitializationObserved ==
    /\ [](\A p \in Procs :
            (\/ inv[p].pc \in {"thr_init_upload", "thr_init_publish"}
             \/ Published(inv[p], "no_timer") # <<>>)
                => ~inv[p].s3_at_start.exists)
    /\ [][\A p \in Procs :
            (Initialized(inv[p]) /\ inv'[p].pc = "thr_get_timer")
                => /\ inv'[p].s3_at_start.exists
                   /\ int(inv'[p].s3_at_start.body) = NowSeconds(inv[p]) + CooldownSeconds
                   /\ s3' = inv'[p].s3_at_start]_vars
    /\ [][\A p \in Procs :
            (/\ inv[p].pc = "thr_get_timer"
             /\ inv[p].s3_at_start.exists
             /\ NowSeconds(inv[p]) < TargetAtStart(inv[p]))
                => /\ inv'[p].pc \in {"thr_get_timer", "done"}
                   /\ CallsOf(inv'[p], "publish") = <<>>
                   /\ CallsOf(inv'[p], "s3_put") = <<>>
                   /\ s3' = s3]_vars

\* C24 witness: the timer was initialized, no threshold notification was ever
\* sent, and a later invocation started before the target time returned
\* suppressed.
C24_Witness ==
    \E p \in Procs :
        /\ ThrDone(p)
        /\ inv[p].s3_at_start.exists
        /\ crossings = NoCrossings
        /\ NowSeconds(inv[p]) < TargetAtStart(inv[p])
        /\ NowSeconds(inv[p]) > TargetAtStart(inv[p]) - CooldownSeconds
        /\ CallsOf(inv[p], "publish") = <<>>

\* ------------------------------------- two successive all_mode invocations

\* The last container of Procs runs the invocations, one at a time; the first
\* keeps what the previous invocation left when it returned.
Current == CHOOSE p \in Procs : \A q \in Procs : q <= p

Previous == CHOOSE p \in SeqProcs : TRUE

HistAllStart(p) ==
    /\ p = Current
    /\ inv[p].pc = "idle"
    /\ AllStart(p)

\* The invocation has returned: the scheduler may start the next one.
Shift ==
    /\ inv[Current].pc = "done"
    /\ inv' = [inv EXCEPT ![Previous] = inv[Current], ![Current] = Fresh]
    /\ UNCHANGED <<db, s3, clock, Config, announced, crossings>>

HistAllNext ==
    \/ \E p \in Procs :
        \/ HistAllStart(p)
        \/ \E players \in PlayerLists : AllQuery(p, players)
        \/ AllScan(p)
        \/ AllClear(p)
        \/ AllDelete(p)
        \/ AllGet(p)
        \/ AllPut(p)
        \/ AllPublish(p)
    \/ Shift

\* Serialized all_mode invocations, the previous one remembered.
SpecHistAll == InitAll /\ [][HistAllNext]_vars

\* The previous invocation found n persisted and absent from its snapshot.
SawAbsence(n) ==
    /\ AllDone(Previous)
    /\ n \in inv[Previous].db_at_start
    /\ n \notin SnapshotNames(inv[Previous])

\* C25: a persisted player absent from the snapshot of an invocation, with
\* count > 0 or count = 0, is deleted by that invocation, and the following
\* invocation that sees the player again lists them in its notification and
\* persists them again.
C25_ForgetAndRenotify ==
    \A n \in PlayerNames :
        SawAbsence(n) =>
            /\ n \in SeqToSet(ArgsOf(inv[Previous], "delete"))
            /\ n \notin SeqToSet(ArgsOf(inv[Previous], "put"))
            /\ inv[Current].pc = "idle" => n \notin db
            /\ inv[Current].pc # "idle" => n \notin inv[Current].db_at_start
            /\ (AllDone(Current) /\ n \in SnapshotNames(inv[Current]))
                => /\ n \in Listed(inv[Current])
                   /\ n \in db

\* C25 witness: the previous invocation, with players present, deleted a
\* persisted player missing from its snapshot, and the current one saw the
\* player again and listed them.
C25_Witness ==
    \E n \in PlayerNames :
        /\ SawAbsence(n)
        /\ inv[Previous].player_count > 0
        /\ AllDone(Current)
        /\ n \in SnapshotNames(inv[Current])
        /\ n \in Listed(inv[Current])

\* The names an invocation has inserted, looked up, deleted or listed.
Handled(r) ==
    SeqToSet(ArgsOf(r, "put")) \cup SeqToSet(ArgsOf(r, "get"))
        \cup SeqToSet(ArgsOf(r, "delete")) \cup Listed(r)

\* C26, as claimed: neither the empty name nor a name made of blanks is ever
\* inserted into the table, looked up in it or listed in a notification.
C26_BlankDiscarded ==
    \A p \in Procs : \A n \in {"", " "} :
        /\ n \notin db
        /\ n \notin Handled(inv[p])
        /\ n \notin SeqToSet(inv[p].current_player_names)

\* C26, amended: the empty name is never inserted, looked up or listed, in
\* either mode; a name made of blanks is a name like any other: an invocation
\* that finds it in the snapshot and not in the table inserts and lists it.
C26_EmptyDiscarded ==
    \A p \in Procs :
        /\ "" \notin db
        /\ "" \notin Handled(inv[p])
        /\ "" \notin SeqToSet(inv[p].current_player_names)
        /\ (AllDone(p) /\ " " \in SnapshotNames(inv[p]) /\ " " \notin inv[p].db_at_start)
            => /\ " " \in SeqToSet(ArgsOf(inv[p], "put"))
               /\ " " \in Listed(inv[p])
               /\ " " \in db

\* C26 witness: the snapshot held the empty name and a name of one blank; the
\* invocation returned having listed the blank one.
C26_Witness ==
    \E p \in Procs :
        /\ AllDone(p)
        /\ "" \in SeqToSet(inv[p].current_players)
        /\ " " \in SeqToSet(inv[p].current_players)
        /\ " " \in Listed(inv[p])

\* A name occurs more than once in a list.
Repeated(n, s) == \E i, j \in 1..Len(s) : i # j /\ s[i] = n /\ s[j] = n

\* C27: a name the snapshot holds more than once is inserted once, becomes
\* pending once and is listed once in the notification of the invocation.
C27_DeduplicatedJoins ==
    \A p \in Procs : inv[p].mode = "all" =>
        /\ NoDuplicates(ArgsOf(inv[p], "put"))
        /\ NoDuplicates(inv[p].pending_player_names)
        /\ \A i \in 1..Len(Published(inv[p], "joined")) :
              NoDuplicates(Published(inv[p], "joined")[i].arg.message.player_names)

\* C27 witness: an invocation returned whose snapshot held a name twice and
\* which inserted and listed that name.
C27_Witness ==
    \E p \in Procs : \E n \in PlayerNames :
        /\ AllDone(p)
        /\ Repeated(n, inv[p].current_players)
        /\ n \in SeqToSet(ArgsOf(inv[p], "put"))
        /\ n \in Listed(inv[p])

\* ---------------------------------------------------------------------
\* Termination of all_mode invocations
\* ---------------------------------------------------------------------

\* The platform terminates the running all_mode invocation between two of its
\* steps; what it had read and issued is kept on record.
TerminateAll(p) ==
    /\ inv[p].mode = "all"
    /\ inv[p].pc \notin {"idle", "done", "terminated", "raised", "handle_error"}
    /\ \A q \in Procs \ {p} : inv[q].pc = "idle"
    /\ inv' = [inv EXCEPT ![p].pc = "terminated"]
    /\ UNCHANGED <<db, s3, clock, Config, announced, crossings>>

\* The start of an all_mode invocation when the scheduler serializes them: in
\* the first container while no other is in use, in another container, once,
\* after the first was terminated.
CrashAllStart(p) ==
    /\ IF p \in SeqProcs
       THEN \A q \in Procs \ {p} : inv[q].pc = "idle"
       ELSE inv[p].pc = "idle" /\ \E q \in SeqProcs : inv[q].pc = "terminated"
    /\ AllStart(p)

\* The invocation was terminated after it had taken its snapshot.
TerminatedAfterQuery(r) ==
    r.mode = "all" /\ r.pc = "terminated" /\ CallsOf(r, "query") # <<>>

\* The server's answer: the invocation that follows a terminated one is
\* answered with the snapshot the terminated one was given, when it was given
\* one.
CrashAllQuery(p, players) ==
    /\ \A q \in SeqProcs \ {p} :
          TerminatedAfterQuery(inv[q]) => players = inv[q].current_players
    /\ AllQuery(p, players)

CrashAllNext ==
    \/ \E p \in Procs :
        \/ CrashAllStart(p)
        \/ \E players \in PlayerLists : CrashAllQuery(p, players)
        \/ AllScan(p)
        \/ AllClear(p)
        \/ AllDelete(p)
        \/ AllGet(p)
        \/ AllPut(p)
        \/ AllPublish(p)
    \/ \E p \in SeqProcs : TerminateAll(p)
    \/ \E p \in SeqProcs, q \in Procs \ SeqProcs : Reclaim(p, q)

\* Serialized all_mode invocations, any of which the platform may terminate;
\* the next one then runs in another container.
SpecCrashAll == InitAll /\ [][CrashAllNext]_vars

\* C28: after an all_mode invocation was terminated, the table holds only
\* names it held before that invocation or names of its snapshot; once the
\* following invocation has returned against the same snapshot, the table
\* holds exactly the names of the snapshot.
C28_RecoveryAfterCrash ==
    \A p \in SeqProcs : \A q \in Procs \ SeqProcs :
        /\ (inv[p].mode = "all" /\ inv[p].pc = "terminated" /\ inv[q].pc = "idle")
            => db \subseteq inv[p].db_at_start \cup SnapshotNames(inv[p])
        /\ (/\ TerminatedAfterQuery(inv[p])
            /\ AllDone(q)
            /\ inv[q].current_players = inv[p].current_players)
            => db = SnapshotNames(inv[p])

\* C28 witness: an invocation was terminated having issued a delete and an
\* insert, and the following invocation returned against the same snapshot
\* after inserting a name itself.
C28_Witness ==
    \E p \in SeqProcs : \E q \in Procs \ SeqProcs :
        /\ TerminatedAfterQuery(inv[p])
        /\ CallsOf(inv[p], "delete") # <<>>
        /\ CallsOf(inv[p], "put") # <<>>
        /\ AllDone(q)
        /\ inv[q].current_players = inv[p].current_players
        /\ CallsOf(inv[q], "put") # <<>>

\* The positions in the log of an invocation of its calls of one operation.
PositionsOf(r, op) == {i \in 1..Len(r.calls) : r.calls[i].op = op}

\* C29: in an all_mode invocation that found players, every delete_item is
\* issued before the first put_item, and every put_item before the publish;
\* the names the notification lists were all put before it.
C29_DeletesBeforeInserts ==
    \A p \in Procs : (inv[p].mode = "all" /\ inv[p].player_count > 0) =>
        /\ \A i \in PositionsOf(inv[p], "delete") : \A j \in PositionsOf(inv[p], "put") : i < j
        /\ \A i \in PositionsOf(inv[p], "put") : \A j \in PositionsOf(inv[p], "publish") : i < j
        /\ Listed(inv[p]) \subseteq SeqToSet(ArgsOf(inv[p], "put"))

\* C29 witness: an invocation that found players returned having deleted,
\* inserted and published.
C29_Witness ==
    \E p \in Procs :
        /\ AllDone(p)
        /\ inv[p].player_count > 0
        /\ PositionsOf(inv[p], "delete") # {}
        /\ PositionsOf(inv[p], "put") # {}
        /\ Published(inv[p], "joined") # <<>>

\* The invocation retrieved an existing timer file that is empty or holds 0.
ReadEmptyTimer(r) ==
    /\ r.mode = "threshold"
    /\ r.s3_at_start.exists
    /\ r.s3_at_start.body \in {<<>>, str(0)}
    /\ CallsOf(r, "s3_get") # <<>>
    /\ \A i \in 1..Len(r.failed) : r.failed[i] \notin {"thr_get_timer", "handle_error"}

\* C30: a timer file that is empty or holds 0 is a handled error: the
\* invocation goes to handle_error and returns the FAILURE envelope after one
\* error notification 'Timer file was empty', without querying the server and
\* without writing the timer.
C30_EmptyTimerHandled ==
    \A p \in Procs : ReadEmptyTimer(inv[p]) =>
        /\ inv[p].pc \in {"handle_error", "done"}
        /\ inv[p].failed = <<"thr_empty">>
        /\ CallsOf(inv[p], "query") = <<>>
        /\ CallsOf(inv[p], "s3_put") = <<>>
        /\ s3 = inv[p].s3_at_start
        /\ inv[p].pc = "done" =>
            /\ inv[p].ret.statusCode = FAILURE
            /\ Len(CallsOf(inv[p], "publish")) = 1
            /\ Len(Published(inv[p], "error")) = 1

\* The server was empty and so was the table the invocation scanned.
NothingToDo(r) ==
    r.mode = "all" /\ r.pc = "done" /\ r.player_count = 0 /\ r.items = <<>>

\* C31: an all_mode invocation that finds no player and scans an empty table
\* issues no delete_item, no put_item, no get_item and no publish, leaves the
\* table empty and returns SUCCESS, "There were no players".
C31_NothingToDo ==
    \A p \in Procs : NothingToDo(inv[p]) =>
        /\ CallsOf(inv[p], "delete") = <<>>
        /\ CallsOf(inv[p], "put") = <<>>
        /\ CallsOf(inv[p], "get") = <<>>
        /\ CallsOf(inv[p], "publish") = <<>>
        /\ Len(inv[p].calls) = 2
        /\ db = {}
        /\ inv[p].ret = generate_return_message(SUCCESS, "There were no players")

\* C31 witness: an invocation returned from an empty server and an empty
\* table.
C31_Witness ==
    \E p \in Procs :
        /\ NothingToDo(inv[p])
        /\ inv[p].db_at_start = {}
        /\ CallsOf(inv[p], "scan") # <<>>
        /\ inv[p].ret.statusCode = SUCCESS

\* ---------------------------------------------------------------------
\* lambda_handler: retrieval and verification of the configuration
\* ---------------------------------------------------------------------

MAX_THRESHOLD == 100

MAX_TIMER_MINUTES == 10080

\* The values the two numeric environment variables are given: the ends of
\* the documented ranges and their neighbours.
EnvThresholds ==
    {MIN_THRESHOLD - 1, MIN_THRESHOLD, MIN_THRESHOLD + 1, MAX_THRESHOLD, MAX_THRESHOLD + 1}

EnvMinutes ==
    {MIN_TIMER_MINUTES - 2, MIN_TIMER_MINUTES - 1, MIN_TIMER_MINUTES,
     MAX_TIMER_MINUTES, MAX_TIMER_MINUTES + 1}

\* The environment variables each mode reads.
RequiredNames(mode) ==
    IF mode = "all" THEN {"SERVER_IP", "DYNAMO_DB_TABLE", "SNS_TOPIC_ARN"}
    ELSE IF mode = "threshold"
    THEN {"SERVER_IP", "SNS_TOPIC_ARN", "PLAYER_COUNT_THRESHOLD",
          "THRESHOLD_TIMER_MINUTES", "S3_BUCKET_NAME"}
    ELSE {}

\* The environment of the function: MODE, the two numbers, at most one
\* variable that is not set (unset) and at most one text variable set to the
\* empty text (empty); "" when there is none.
EnvConfigs ==
    {c \in [MODE : {"all", "threshold", "other"},
            PLAYER_COUNT_THRESHOLD : EnvThresholds \cup {0},
            THRESHOLD_TIMER_MINUTES : EnvMinutes,
            unset : {"", "SERVER_IP", "PLAYER_COUNT_THRESHOLD"},
            empty : {"", "SERVER_IP", "DYNAMO_DB_TABLE", "S3_BUCKET_NAME"}] :
        /\ c.unset = "" \/ c.empty = ""
        /\ c.MODE # "threshold" =>
            c.PLAYER_COUNT_THRESHOLD = 0 /\ c.THRESHOLD_TIMER_MINUTES = 0}

\* get_env_variables: os.environ[name] raises KeyError for a variable that is
\* not set; otherwise 0, or -1 for a mode that is neither "all" nor
\* "threshold".
get_env_variables(c) ==
    IF c.unset \in RequiredNames(c.MODE) THEN [raises |-> TRUE, value |-> 0]
    ELSE IF c.MODE \in {"all", "threshold"} THEN [raises |-> FALSE, value |-> 0]
    ELSE [raises |-> FALSE, value |-> -1]

\* 'not x' of a text: x is empty.
NotProvided(c, name) == c.empty = name

\* verify_env_variables of utility.py; NoReturn stands for None.
verify_env_variables(c) ==
    IF c.MODE = "all"
    THEN IF NotProvided(c, "SERVER_IP")
         THEN generate_return_message(FAILURE, "Missing server ip")
         ELSE IF NotProvided(c, "DYNAMO_DB_TABLE")
         THEN generate_return_message(FAILURE, "Missing DynamoDB table name")
         ELSE IF NotProvided(c, "SNS_TOPIC_ARN")
         THEN generate_return_message(FAILURE, "Missing SNS ARN")
         ELSE NoReturn
    ELSE IF c.MODE = "threshold"
    THEN IF NotProvided(c, "SERVER_IP")
         THEN generate_return_message(FAILURE, "Missing server ip")
         ELSE IF NotProvided(c, "SNS_TOPIC_ARN")
         THEN generate_return_message(FAILURE, "Missing SNS Topic ARN")
         ELSE IF \/ c.PLAYER_COUNT_THRESHOLD = 0
                 \/ ~(MIN_THRESHOLD <= c.PLAYER_COUNT_THRESHOLD
                        /\ c.PLAYER_COUNT_THRESHOLD <= MAX_THRESHOLD)
         THEN generate_return_message(FAILURE, "Missing player count threshold")
         ELSE IF \/ c.THRESHOLD_TIMER_MINUTES = 0
                 \/ ~(MIN_TIMER_MINUTES <= c.THRESHOLD_TIMER_MINUTES
                        /\ c.THRESHOLD_TIMER_MINUTES <= MAX_TIMER_MINUTES)
         THEN generate_return_message(FAILURE, "Missing valid threshold timer")
         ELSE IF NotProvided(c, "S3_BUCKET_NAME")
         THEN generate_return_message(FAILURE, "Missing S3 bucket name")
         ELSE NoReturn
    ELSE generate_return_message(FAILURE, "No mode passed in to verify_env_variables")

\* verify_env_variables of lambda_function.py, with its own ranges.
lambda_function_verify_env_variables(c) ==
    IF c.MODE = "all"
    THEN IF NotProvided(c, "SERVER_IP")
         THEN generate_return_message(FAILURE, "Missing server ip")
         ELSE IF NotProvided(c, "DYNAMO_DB_TABLE")
         THEN generate_return_message(FAILURE, "Missing DynamoDb table name")
         ELSE IF NotProvided(c, "SNS_TOPIC_ARN")
         THEN generate_return_message(FAILURE, "Missing SNS ARN")
         ELSE NoReturn
    ELSE IF c.MODE = "threshold"
    THEN IF NotProvided(c, "SERVER_IP")
         THEN generate_return_message(FAILURE, "Missing server ip")
         ELSE IF NotProvided(c, "SNS_TOPIC_ARN")
         THEN generate_return_message(FAILURE, "Missing SNS ARN")
         ELSE IF \/ c.PLAYER_COUNT_THRESHOLD = 0
                 \/ ~(0 <= c.PLAYER_COUNT_THRESHOLD /\ c.PLAYER_COUNT_THRESHOLD <= 100)
         THEN generate_return_message(FAILURE, "Missing player count threshold")
         ELSE IF \/ c.THRESHOLD_TIMER_MINUTES = 0
                 \/ ~(0 <= c.THRESHOLD_TIMER_MINUTES /\ c.THRESHOLD_TIMER_MINUTES <= 120)
         THEN generate_return_message(FAILURE, "Missing valid threshold timer")
         ELSE IF NotProvided(c, "S3_BUCKET_NAME")
         THEN generate_return_message(FAILURE, "Missing S3 bucket name")
         ELSE NoReturn
    ELSE generate_return_message(FAILURE, "No mode passed in to verify_env_variables")

\* lambda_handler up to the dispatch, verify_status_error being what the
\* verification it calls returns: what the handler does (return an envelope,
\* let an exception out, run a mode) and the envelope it returns.
lambda_handler(c, verify_status_error) ==
    IF c.MODE # "all" /\ c.MODE # "threshold"
    THEN [does |-> "return", ret |-> generate_return_message(FAILURE, "Missing valid mode")]
    ELSE IF get_env_variables(c).raises
    THEN [does |-> "raise", ret |-> NoReturn]
    ELSE IF get_env_variables(c).value # 0
    THEN [does |-> "return",
          ret |-> generate_return_message(FAILURE, "Error when retrieving environment variables")]
    ELSE IF verify_status_error # NoReturn
    THEN [does |-> "return", ret |-> verify_status_error]
    ELSE [does |-> c.MODE, ret |-> NoReturn]

\* One invocation of the handler, verify_status_error being what the
\* verification it calls returns: it returns an envelope, lets the exception
\* of the retrieval out, or runs the mode.
HandlerStart(p, d, verify_status_error) ==
    /\ inv[p].pc \in {"idle", "done", "raised"}
    /\ clock + d <= ConcMaxClock * TicksPerSecond
    /\ LET h == lambda_handler(Config, verify_status_error)
       IN  IF h.does = "all" THEN AllStart(p)
           ELSE IF h.does = "threshold" THEN ThrStart(p, d)
           ELSE /\ inv' = [inv EXCEPT ![p] =
                            IF h.does = "raise" THEN Raise(Fresh, "get_env_variables")
                            ELSE [Fresh EXCEPT !.pc = "done", !.ret = h.ret]]
                /\ UNCHANGED <<db, s3, clock, Config, announced, crossings>>

\* The handler with the verification of lambda_function.py, the handler with
\* the verification of utility.py, and the steps of the mode it runs.
HandlerNext ==
    \E p \in SeqProcs :
        \/ \E d \in Elapsed :
            HandlerStart(p, d, lambda_function_verify_env_variables(Config))
        \/ \E d \in Elapsed : HandlerStart(p, d, verify_env_variables(Config))
        \/ \E players \in ConcPlayerLists : AllQuery(p, players)
        \/ AllScan(p)
        \/ AllClear(p)
        \/ AllDelete(p)
        \/ AllGet(p)
        \/ AllPut(p)
        \/ AllPublish(p)
        \/ ThrGetTimer(p)
        \/ ThrInitUpload(p)
        \/ ThrInitPublish(p)
        \/ \E players \in ConcPlayerLists : ThrQuery(p, players)
        \/ ThrUpload(p)
        \/ ThrPublish(p)

InitHandler ==
    /\ db = {}
    /\ s3 = [exists |-> FALSE, body |-> <<>>]
    /\ clock = 0
    /\ Config \in EnvConfigs
    /\ inv = [p \in Procs |-> Fresh]
    /\ announced = [n \in PlayerNames |-> 0]
    /\ crossings = NoCrossings

\* Invocations of the handler under every environment, serialized.
SpecHandler == InitHandler /\ [][HandlerNext]_vars

\* The two numbers lie in the documented ranges.
InRange(c) ==
    /\ MIN_THRESHOLD <= c.PLAYER_COUNT_THRESHOLD
    /\ c.PLAYER_COUNT_THRESHOLD <= MAX_THRESHOLD
    /\ MIN_TIMER_MINUTES <= c.THRESHOLD_TIMER_MINUTES
    /\ c.THRESHOLD_TIMER_MINUTES <= MAX_TIMER_MINUTES

\* Every variable the mode reads is set, the texts to something.
Complete(c) ==
    c.unset \notin RequiredNames(c.MODE) /\ c.empty \notin RequiredNames(c.MODE)

\* The handler ended the invocation without running a mode.
Refused(r) == r.mode = "" /\ r.pc \in {"done", "raised"}

\* C32: threshold_mode runs only under a threshold within 0..100 and a timer
\* within 2..10080 minutes, and the handler refuses no complete configuration
\* whose two numbers lie within those ranges, threshold 0 included.
C32_ValidatedBounds ==
    \A p \in Procs :
        /\ inv[p].mode = "threshold" => InRange(Config)
        /\ (Config.MODE = "threshold" /\ InRange(Config) /\ Complete(Config))
            => ~Refused(inv[p])

\* The retrieval or the verification of the configuration fails, whichever
\* of the two verifications the handler calls.
ConfigurationFails(c) ==
    \/ get_env_variables(c).raises
    \/ get_env_variables(c).value # 0
    \/ verify_env_variables(c) # NoReturn /\ lambda_function_verify_env_variables(c) # NoReturn

\* C33: an invocation runs the mode MODE names and no other; under any other
\* MODE, or when the retrieval or the verification of the configuration
\* fails, the handler returns a FAILURE envelope having queried nothing,
\* touched neither the table nor the timer and published nothing.
C33_ModeDispatch ==
    \A p \in Procs :
        /\ inv[p].mode # "" => inv[p].mode = Config.MODE
        /\ Refused(inv[p]) =>
            /\ inv[p].pc = "done"
            /\ inv[p].ret.statusCode = FAILURE
        /\ (Config.MODE \notin {"all", "threshold"} \/ ConfigurationFails(Config)) =>
            /\ inv[p].mode = ""
            /\ inv[p].calls = <<>>
            /\ db = {}
            /\ ~s3.exists

\* ---------------------------------------------------------------------
\* The mode changed between invocations
\* ---------------------------------------------------------------------

\* The two configurations the function is switched between.
SwitchConfigs ==
    {[MODE |-> "all", PLAYER_COUNT_THRESHOLD |-> 0, THRESHOLD_TIMER_MINUTES |-> 0],
     [MODE |-> "threshold", PLAYER_COUNT_THRESHOLD |-> ConcMaxPlayers,
      THRESHOLD_TIMER_MINUTES |-> MIN_TIMER_MINUTES]}

InitSwitch == Init /\ Config \in SwitchConfigs

\* Between two invocations the environment of the function is edited: the
\* next container loads the other mode.
Reconfigure ==
    /\ \A p \in Procs : inv[p].pc \in {"idle", "done", "raised"}
    /\ \E p \in Procs : inv[p].pc # "idle"
    /\ \E c \in SwitchConfigs : c # Config /\ Config' = c
    /\ inv' = [p \in Procs |-> Fresh]
    /\ UNCHANGED <<db, s3, clock, announced, crossings>>

SwitchThrStart(p, d) ==
    /\ clock + d <= ConcMaxClock * TicksPerSecond
    /\ ThrStart(p, d)

\* Serialized invocations, any external call possibly failing, the mode
\* possibly changed between two of them.
SwitchNext ==
    \/ \E p \in SeqProcs :
        \/ AllStart(p)
        \/ \E players \in ConcPlayerLists : AllQuery(p, players)
        \/ AllScan(p)
        \/ AllClear(p)
        \/ AllDelete(p)
        \/ AllGet(p)
        \/ AllPut(p)
        \/ AllPublish(p)
        \/ \E d \in Elapsed : SwitchThrStart(p, d)
        \/ ThrGetTimer(p)
        \/ ThrInitUpload(p)
        \/ ThrInitPublish(p)
        \/ \E players \in ConcPlayerLists : ThrQuery(p, players)
        \/ ThrUpload(p)
        \/ ThrPublish(p)
        \/ AllCallFails(p)
        \/ ThrGetTimerFails(p)
        \/ ThrUploadFails(p)
        \/ ThrQueryFails(p)
        \/ ThrPublishFails(p)
        \/ handle_error(p)
        \/ HandleErrorFails(p)
    \/ Reconfigure

SpecSwitch == InitSwitch /\ [][SwitchNext]_vars

TableCalls(r) ==
    Len(CallsOf(r, "scan")) + Len(CallsOf(r, "get")) + Len(CallsOf(r, "put"))
        + Len(CallsOf(r, "delete"))

TimerCalls(r) == Len(CallsOf(r, "s3_get")) + Len(CallsOf(r, "s3_put"))

\* C34: a threshold_mode invocation issues no call on the table and none of
\* its steps changes the table; an all_mode invocation issues no call on the
\* timer file and none of its steps changes the file; failing calls and
\* handle_error included.
C34_ModeStateIndependence ==
    /\ [](\A p \in Procs :
            /\ inv[p].mode = "threshold" => TableCalls(inv[p]) = 0
            /\ inv[p].mode = "all" => TimerCalls(inv[p]) = 0)
    /\ [][\A p \in Procs :
            /\ (inv'[p] # inv[p] /\ inv'[p].mode = "threshold") => db' = db
            /\ (inv'[p] # inv[p] /\ inv'[p].mode = "all") => s3' = s3]_vars

\* C34 witness: over a table that holds names, a threshold_mode invocation
\* wrote the timer, failed afterwards and left the table as it was.
C34_Witness ==
    \E p \in Procs :
        /\ inv[p].mode = "threshold"
        /\ inv[p].pc = "raised"
        /\ CallsOf(inv[p], "s3_put") # <<>>
        /\ db # {}

\* ---------------------------------------------------------------------
\* format_server_info_to_string of src/internal/utility.py
\* ---------------------------------------------------------------------

\* An optional argument: left out (None) or given.
Omitted == [given |-> FALSE, value |-> <<>>]

\* 'for idx, name in enumerate(player_names)': the numbered names; raises
\* TypeError when player_names is None.
Enumerated(player_names) ==
    IF ~player_names.given THEN [raises |-> TRUE, lines |-> <<>>]
    ELSE [raises |-> FALSE,
          lines |-> [i \in 1..Len(player_names.value) |-> <<i, player_names.value[i]>>]]

\* format_server_info_to_string: both the "all" and the "threshold" branch
\* enumerate player_names before they build the message.
format_server_info_to_string(mode, threshold, player_count, player_names, new_target_time) ==
    IF mode = "all"
    THEN [raises |-> Enumerated(player_names).raises,
          message |-> [template |-> "all", threshold |-> 0,
                       player_count |-> player_count,
                       player_names |-> Enumerated(player_names).lines,
                       next_check |-> 0]]
    ELSE IF mode = "threshold"
    THEN [raises |-> Enumerated(player_names).raises,
          message |-> [template |-> "threshold", threshold |-> threshold,
                       player_count |-> player_count,
                       player_names |-> Enumerated(player_names).lines,
                       next_check |-> new_target_time.current_time_human_readable]]
    ELSE [raises |-> FALSE,
          message |-> [template |-> "", threshold |-> 0, player_count |-> 0,
                       player_names |-> <<>>, next_check |-> 0]]

\* The notification step of threshold_mode with this formatter: the call
\* passes server_name, player_count and new_target_time, not player_names.
ThrPublishInternal(p) ==
    /\ inv[p].pc = "thr_publish"
    /\ LET r == inv[p]
           formatted == format_server_info_to_string(Config.MODE,
                            Config.PLAYER_COUNT_THRESHOLD, r.player_count, Omitted,
                            r.new_target_time)
       IN  IF formatted.raises
           THEN /\ inv' = [inv EXCEPT ![p] = Raise(r, "format_server_info_to_string")]
                /\ UNCHANGED crossings
           ELSE /\ inv' = [inv EXCEPT ![p] =
                    Return(Issue(r, "publish",
                                 [subject |-> "threshold", message |-> formatted.message]),
                           SUCCESS, "Email sent successfully")]
                /\ crossings' = [last |-> r.current_time.current_time_seconds_int,
                                 prev |-> crossings.last]
    /\ UNCHANGED <<db, s3, clock, Config, announced>>

\* threshold_mode invocations, serialized, formatting the notification with
\* the formatter of utility.py or with the one of src/internal/utility.py.
FormatNext ==
    \E p \in SeqProcs :
        \/ \E d \in Elapsed : SwitchThrStart(p, d)
        \/ ThrGetTimer(p)
        \/ ThrInitUpload(p)
        \/ ThrInitPublish(p)
        \/ \E players \in ConcPlayerLists : ThrQuery(p, players)
        \/ ThrUpload(p)
        \/ ThrPublish(p)
        \/ ThrPublishInternal(p)

SpecFormat == InitConcThr /\ [][FormatNext]_vars

\* C35: called as threshold_mode calls it, without player names, the
\* formatter returns the threshold message: every invocation that wrote the
\* new target time goes on to publish the threshold notification and returns.
C35_FormatterTotal ==
    \A p \in Procs :
        (/\ inv[p].mode = "threshold"
         /\ inv[p].s3_at_start.exists
         /\ CallsOf(inv[p], "s3_put") # <<>>
         /\ Ended(inv[p]))
        => /\ inv[p].pc = "done"
           /\ Len(Published(inv[p], "threshold")) = 1

\* An invocation issued an upload of the timer file in this step.
Uploads == \E p \in Procs :
    Len(CallsOf(inv'[p], "s3_put")) = Len(CallsOf(inv[p], "s3_put")) + 1

\* C36: a timer file that exists still exists after every step of every
\* threshold_mode invocation, failing ones included; its content changes only
\* by an upload of an invocation (or by the edit made outside the program).
C36_TimerNeverDeleted ==
    [][/\ s3.exists => s3'.exists
       /\ (s3.exists /\ s3' # s3) => (Uploads \/ \A p \in Procs : inv'[p] = Fresh)]_vars

\* C36 witness: an invocation that found the timer failed at its upload and
\* returned through handle_error; the timer is still there.
C36_Witness ==
    \E p \in Procs :
        /\ inv[p].mode = "threshold"
        /\ inv[p].s3_at_start.exists
        /\ inv[p].failed = <<"thr_upload">>
        /\ inv[p].pc = "done"
        /\ s3.exists

\* ---------------------------------------------------------------------
\* A player who stays, and one termination
\* ---------------------------------------------------------------------

\* The player who is in every snapshot.
PresentPlayer == "A"

\* The snapshots that hold that player.
LivePlayerLists == {s \in PlayerLists : PresentPlayer \in SeqToSet(s)}

\* The scheduler starts the next invocation: in the first container while no
\* other is in use, in the second container ever after the first was
\* terminated.
LiveAllStart(p) ==
    /\ IF p \in SeqProcs
       THEN \A q \in Procs \ {p} : inv[q].pc = "idle"
       ELSE \E q \in SeqProcs : inv[q].pc = "terminated"
    /\ AllStart(p)

\* What the scheduler and the invocations do; the count is never 0, so the
\* branch that clears the table is not taken.
LiveAllProgress ==
    \E p \in Procs :
        \/ LiveAllStart(p)
        \/ \E players \in LivePlayerLists : AllQuery(p, players)
        \/ AllScan(p)
        \/ AllDelete(p)
        \/ AllGet(p)
        \/ AllPut(p)
        \/ AllPublish(p)

LiveAllNext ==
    \/ LiveAllProgress
    \/ \E p \in SeqProcs : TerminateAll(p)

\* Serialized all_mode invocations from an empty table, scheduled for ever
\* and each running to its end unless it is the one the platform terminates.
SpecLiveAll == InitAll /\ [][LiveAllNext]_vars /\ WF_vars(LiveAllProgress)

\* C37: from an empty table, the player who is in every snapshot is
\* eventually listed in a notification that was sent, even when the
\* invocation that inserted the name was terminated before it published.
C37_EventuallyAnnounced == <>(announced[PresentPlayer] >= 1)

\* ---------------------------------------------------------------------
\* threshold_mode invocations, the previous one remembered
\* ---------------------------------------------------------------------

HistThrStart(p, d) ==
    /\ p = Current
    /\ inv[p].pc = "idle"
    /\ clock + d <= ConcMaxClock * TicksPerSecond
    /\ ThrStart(p, d)

\* The invocation has ended, by a return or by an exception: the scheduler
\* may start the next one.
ShiftEnded ==
    /\ Ended(inv[Current])
    /\ inv' = [inv EXCEPT ![Previous] = inv[Current], ![Current] = Fresh]
    /\ UNCHANGED <<db, s3, clock, Config, announced, crossings>>

\* Serialized threshold_mode invocations whose uploads and error
\* notifications may fail.
HistThrNext ==
    \/ \E p \in Procs :
        \/ \E d \in Elapsed : HistThrStart(p, d)
        \/ ThrGetTimer(p)
        \/ ThrInitUpload(p)
        \/ ThrInitPublish(p)
        \/ \E players \in ConcPlayerLists : ThrQuery(p, players)
        \/ ThrUpload(p)
        \/ ThrPublish(p)
        \/ ThrUploadFails(p)
        \/ handle_error(p)
        \/ HandleErrorFails(p)
    \/ ShiftEnded

SpecHistThr == InitConcThr /\ [][HistThrNext]_vars

\* The upload of handle_timer_file_not_found failed in this invocation.
InitUploadFailed(r) == r.failed # <<>> /\ r.failed[1] = "thr_init_upload"

\* C38: when the upload of the initial timer fails, the invocation sends no
\* initialization notification; handle_error sends the one error notification
\* and returns FAILURE (only a failure of that very notification ends the
\* invocation otherwise); the timer stays absent, and the next invocation
\* finds no timer and takes the initialization path again.
C38_FailedInitialization ==
    /\ \A p \in Procs : InitUploadFailed(inv[p]) =>
        /\ Published(inv[p], "no_timer") = <<>>
        /\ CallsOf(inv[p], "s3_put") = <<>>
        /\ CallsOf(inv[p], "query") = <<>>
        /\ inv[p].pc \in {"handle_error", "done", "raised"}
        /\ inv[p].pc = "done" =>
            /\ inv[p].ret.statusCode = FAILURE
            /\ Len(CallsOf(inv[p], "publish")) = 1
            /\ Len(Published(inv[p], "error")) = 1
        /\ inv[p].pc = "raised" =>
            /\ inv[p].failed = <<"thr_init_upload", "handle_error">>
            /\ CallsOf(inv[p], "publish") = <<>>
    /\ (InitUploadFailed(inv[Current]) \/
        (InitUploadFailed(inv[Previous]) /\ CallsOf(inv[Current], "s3_get") = <<>>))
        => ~s3.exists
    /\ (InitUploadFailed(inv[Previous]) /\ CallsOf(inv[Current], "s3_get") # <<>>) =>
        /\ ~inv[Current].s3_at_start.exists
        /\ inv[Current].new_target_time # NoTime
        /\ CallsOf(inv[Current], "query") = <<>>
        /\ inv[Current].pc \in
            {"thr_init_upload", "thr_init_publish", "handle_error", "done", "raised"}

\* C38 witness: the upload of the initial timer failed and the invocation
\* returned after its error notification; the next invocation created the
\* timer and sent the initialization notification.
C38_Witness ==
    /\ inv[Previous].failed = <<"thr_init_upload">>
    /\ inv[Previous].pc = "done"
    /\ Len(Published(inv[Previous], "error")) = 1
    /\ inv[Current].pc = "done"
    /\ Len(Published(inv[Current], "no_timer")) = 1
    /\ s3.exists

\* ---------------------------------------------------------------------
\* A server that stays crowded, a clock that advances
\* ---------------------------------------------------------------------

\* The server's answer when it stays crowded: a count that is positive and
\* reaches the threshold.
CrowdedThrQuery(p, players) ==
    /\ Len(players) > 0
    /\ Len(players) >= Config.PLAYER_COUNT_THRESHOLD
    /\ ThrQuery(p, players)

\* The scheduler starts the next invocation about a minute after the last.
LiveThrStart(p, d) ==
    /\ d > 0
    /\ ThrStart(p, d)

\* The timer exists from the start, so handle_timer_file_not_found never runs.
LiveThrNext ==
    \E p \in SeqProcs :
        \/ \E d \in Elapsed : LiveThrStart(p, d)
        \/ ThrGetTimer(p)
        \/ \E players \in PlayerLists : CrowdedThrQuery(p, players)
        \/ ThrUpload(p)
        \/ ThrPublish(p)

\* The timer exists: an invocation at instant 0 has created it.
InitLiveThr ==
    /\ db = {}
    /\ Config \in Configs
    /\ Config.MODE = "threshold"
    /\ Config.PLAYER_COUNT_THRESHOLD = ConcMaxPlayers
    /\ s3 = [exists |-> TRUE,
             body |-> str(NewTargetTime(TimeType(0), Config.THRESHOLD_TIMER_MINUTES)
                            .current_time_seconds_int)]
    /\ clock = 0
    /\ inv = [p \in Procs |-> Fresh]
    /\ announced = [n \in PlayerNames |-> 0]
    /\ crossings = NoCrossings

\* Serialized threshold_mode invocations without failures, scheduled as long
\* as the clock of the model lasts, each running to its end.
SpecLiveThr == InitLiveThr /\ [][LiveThrNext]_vars /\ WF_vars(LiveThrNext)

\* The instants, in ticks, from which one more cooldown and one more
\* invocation fit before the clock of the model ends.
Horizon ==
    (MaxClock - CooldownSeconds - MINUTES_TO_SECONDS_MULTIPLIER) * TicksPerSecond

\* A threshold notification was sent by the invocation of the current instant.
JustNotified ==
    \E p \in Procs :
        /\ ThrDone(p)
        /\ Published(inv[p], "threshold") # <<>>
        /\ inv[p].current_time.current_time_seconds_float = clock

\* C39: with an existing timer, a count that reaches the threshold at every
\* check and invocations that keep being scheduled with an advancing clock,
\* from every instant on a threshold notification is eventually sent, and
\* after a notification another one is eventually sent: the gate does not stay
\* suppressed.
C39_NotificationsKeepComing ==
    /\ [](clock <= Horizon => <>JustNotified)
    /\ []((clock <= Horizon /\ crossings.last >= 0)
            => <>(JustNotified /\ crossings.prev >= 0))

\* C39 witness: a threshold notification was just sent, a cooldown or more
\* after an earlier one.
C39_Witness ==
    /\ JustNotified
    /\ crossings.prev >= 0
    /\ crossings.last >= crossings.prev + CooldownSeconds

====
